---------------------------- MODULE Spec2Model ----------------------------
(***************************************************************************)
(* A model of the table extraction scripts of the repository:              *)
(*   extract_universal.py     smart_parse_table and the assembly in main   *)
(*   extract_hierarchical.py  extract_hierarchical_table                   *)
(*   extract_smart_pdf.py     parse_census_data and the assembly in main   *)
(*   app.py                   extract_from_pdf                             *)
(*   extract_generic_smart.py main and detect_table_structure              *)
(* Text is modelled character by character: a line is a TLA+ string, and   *)
(* the regular expressions, splits, replacements and number conversions of *)
(* the code are operators over the characters of the string.               *)
(* The em dash U+2014 of the source is written "~" here, because a module  *)
(* holds ASCII only; "~" plays no other role in the model.                 *)
(***************************************************************************)
EXTENDS Integers, Sequences, FiniteSets, TLC

VARIABLES
    script,              \* "universal", "hierarchical", "smart", "app" or "generic"
    rows,                \* the extracted rows, each a sequence of cell strings
    pc,                  \* position of the script
    idx,                 \* loop index of the running loop
    uses_french_format,  \* extract_universal.py:135
    header_candidates,   \* extract_universal.py:151
    data_candidates,     \* extract_universal.py:152
    current_region,      \* the context cursor, region field
    current_section,     \* the context cursor, section field
    headers,             \* the column names
    temp_values,         \* the first-pass values of the data row being parsed
    parsed_data,         \* the parsed rows, in row order
    best_header,         \* the chosen header row, <<>> for None
    columns,             \* the column names of the final DataFrame
    records,             \* the rows of the final DataFrame
    exit_code,           \* -1 while running, 0 on success, 1 after sys.exit(1) or a traceback
    pages,               \* the pages of the PDF as the extraction methods find them
    attempts,            \* the extraction methods called so far, in order
    method,              \* the method that main records, "" before
    written,             \* the output is written (app.py: the DataFrame is returned)
    pdf_files,           \* cli.py main: the PDF files of the batch
    image_files,         \* cli.py main: the images to process
    ocr_results,         \* cli.py main: the OCR result of every image, in insertion order
    data,                \* cli.py main: the rows of the parsed DataFrame
    column_mappings,     \* config parsing.column_mappings
    server,              \* what the server answers to the successive requests for each URL
    district_range,      \* config download.district_range
    downloaded_files,    \* downloader.py:44
    max_retries,         \* the parameter of download_file
    attempt,             \* downloader.py:83
    requests,            \* the requests sent so far, each with its attempt and its answer
    sleeps,              \* the arguments of the calls of time.sleep so far
    returned,            \* the outcome of download_file, "" while it runs
    warning,             \* the last message of a run that ends without a result, "" before
    default_config,      \* config.py:12, the nested dictionaries of Config.DEFAULT_CONFIG
    instances            \* the config dictionaries of the Config objects, in order of construction

\* the state of the batch pipeline and of the downloader
batch_vars == <<pdf_files, image_files, ocr_results, data, column_mappings, server, district_range,
                downloaded_files, max_retries, attempt, requests, sleeps, returned>>

\* the state of the Config class and of its objects
config_vars == <<default_config, instances>>

\* the state of the scripts that parse one document
parser_vars == <<rows, uses_french_format, header_candidates, data_candidates,
                 current_region, current_section, headers, temp_values, parsed_data,
                 best_header, columns, records, pages, attempts, method, written>>

vars == <<script, rows, pc, idx, uses_french_format, header_candidates,
          data_candidates, current_region, current_section, headers,
          temp_values, parsed_data, best_header, columns, records, exit_code,
          pages, attempts, method, written, pdf_files, image_files, ocr_results,
          data, column_mappings, server, district_range, downloaded_files, max_retries, attempt,
          requests, sleeps, returned, warning, default_config, instances>>

----------------------------------------------------------------------------
(* Characters and strings *)

EmDash == "~"

DigitChars == "0123456789"

UpperChars == "ABCDEFGHIJKLMNOPQRSTUVWXYZ"

LowerChars == "abcdefghijklmnopqrstuvwxyz"

CharAt(s, i) == SubSeq(s, i, i)

CharSet(s) == {CharAt(s, i) : i \in 1..Len(s)}

DigitSet == CharSet(DigitChars)

UpperSet == CharSet(UpperChars)

LowerSet == CharSet(LowerChars)

IsDigit(c) == c \in DigitSet

IsAlpha(c) == c \in UpperSet \/ c \in LowerSet

\* \w of the re module, on the ASCII characters of the model
IsWordChar(c) == IsDigit(c) \/ IsAlpha(c) \/ c = "_"

IndexIn(c, s) == CHOOSE i \in 1..Len(s) : CharAt(s, i) = c

DigitVal(c) == IndexIn(c, DigitChars) - 1

UpperChar(c) == IF c \in LowerSet THEN CharAt(UpperChars, IndexIn(c, LowerChars)) ELSE c

RECURSIVE Upper(_)
Upper(s) == IF s = "" THEN "" ELSE UpperChar(Head(s)) \o Upper(Tail(s))

\* kw in text
Contains(text, kw) ==
    \E i \in 1..(Len(text) - Len(kw) + 1) : SubSeq(text, i, i + Len(kw) - 1) = kw

StartsWith(text, kw) == Len(kw) <= Len(text) /\ SubSeq(text, 1, Len(kw)) = kw

\* text.count(c) for a single character c
CountChar(text, c) == Cardinality({i \in 1..Len(text) : CharAt(text, i) = c})

\* text.replace(a, b) for a single character a and a string b of length <= 1
RECURSIVE ReplaceChar(_, _, _)
ReplaceChar(s, a, b) ==
    IF s = "" THEN ""
    ELSE (IF Head(s) = a THEN b ELSE Head(s)) \o ReplaceChar(Tail(s), a, b)

RECURSIVE Strip(_)
Strip(s) ==
    IF s = "" THEN ""
    ELSE IF Head(s) = " " THEN Strip(Tail(s))
    ELSE IF CharAt(s, Len(s)) = " " THEN Strip(SubSeq(s, 1, Len(s) - 1))
    ELSE s

RECURSIVE Join(_, _)
Join(cells, sep) ==
    IF cells = <<>> THEN ""
    ELSE IF Len(cells) = 1 THEN cells[1]
    ELSE cells[1] \o sep \o Join(Tail(cells), sep)

SetMax(S) == CHOOSE m \in S : \A x \in S : x <= m

SetMin(S) == CHOOSE m \in S : \A x \in S : m <= x

\* the last index of the run of characters in class starting at i (i-1 if none)
RunEnd(s, i, class) ==
    LET out == {j \in i..Len(s) : CharAt(s, j) \notin class}
    IN  IF out = {} THEN Len(s) ELSE SetMin(out) - 1

\* \b between the characters i-1 and i
Boundary(s, i) ==
    LET before == i - 1 >= 1 /\ i - 1 <= Len(s) /\ IsWordChar(CharAt(s, i - 1))
        after  == i >= 1 /\ i <= Len(s) /\ IsWordChar(CharAt(s, i))
    IN  before # after

\* str.split(): the maximal runs of non-blank characters
RECURSIVE SplitFrom(_, _, _, _)
SplitFrom(s, i, cur, acc) ==
    IF i > Len(s) THEN (IF cur = "" THEN acc ELSE Append(acc, cur))
    ELSE IF CharAt(s, i) = " "
         THEN SplitFrom(s, i + 1, "", IF cur = "" THEN acc ELSE Append(acc, cur))
         ELSE SplitFrom(s, i + 1, cur \o CharAt(s, i), acc)

SplitWs(s) == SplitFrom(s, 1, "", <<>>)

\* re.split(r'\s{2,}', s): cut at every run of two or more blanks
RECURSIVE Split2From(_, _, _, _)
Split2From(s, i, cur, acc) ==
    IF i > Len(s) THEN Append(acc, cur)
    ELSE IF CharAt(s, i) = " " /\ i < Len(s) /\ CharAt(s, i + 1) = " "
         THEN Split2From(s, RunEnd(s, i, {" "}) + 1, "", Append(acc, cur))
         ELSE Split2From(s, i + 1, cur \o CharAt(s, i), acc)

SplitWs2(s) == Split2From(s, 1, "", <<>>)

\* str(n) for n >= 0
RECURSIVE IntToStr(_)
IntToStr(n) ==
    IF n < 10 THEN CharAt(DigitChars, n + 1)
    ELSE IntToStr(n \div 10) \o CharAt(DigitChars, (n % 10) + 1)

\* int(s) for a string of digits
RECURSIVE StrToInt(_)
StrToInt(s) ==
    IF s = "" THEN 0
    ELSE 10 * StrToInt(SubSeq(s, 1, Len(s) - 1)) + DigitVal(CharAt(s, Len(s)))

\* str.isdigit() on the ASCII characters of the model
IsDigitStr(s) == s # "" /\ \A i \in 1..Len(s) : IsDigit(CharAt(s, i))

\* s.zfill(3)
ZFill3(s) == IF Len(s) >= 3 THEN s ELSE SubSeq("000", 1, 3 - Len(s)) \o s

----------------------------------------------------------------------------
(* The regular expressions of smart_parse_table *)

\* the end of the match of \d{1,3},\d{3} that starts at i, 0 if none
CommaMatchEnd(s, i) ==
    LET ks == {k \in 1..3 :
                 /\ i + k + 3 <= Len(s)
                 /\ IsDigitStr(SubSeq(s, i, i + k - 1))
                 /\ CharAt(s, i + k) = ","
                 /\ IsDigitStr(SubSeq(s, i + k + 1, i + k + 3))}
    IN  IF ks = {} THEN 0 ELSE i + SetMax(ks) + 3

\* the end of the match of \b\d{2,}[,\d]*\b that starts at i, 0 if none
NumberMatchEnd(s, i) ==
    IF ~(i <= Len(s) /\ IsDigit(CharAt(s, i)) /\ Boundary(s, i)) THEN 0
    ELSE LET d    == RunEnd(s, i, DigitSet)
             r    == RunEnd(s, d + 1, DigitSet \cup {","})
             ends == {e \in (i + 1)..r : Boundary(s, e + 1)}
         IN  IF d < i + 1 \/ ends = {} THEN 0 ELSE SetMax(ends)

\* the end of the match of \b[A-Za-z]{3,}\b that starts at i, 0 if none
WordMatchEnd(s, i) ==
    IF ~(i <= Len(s) /\ IsAlpha(CharAt(s, i)) /\ Boundary(s, i)) THEN 0
    ELSE LET r    == RunEnd(s, i, UpperSet \cup LowerSet)
             ends == {e \in (i + 2)..r : Boundary(s, e + 1)}
         IN  IF ends = {} THEN 0 ELSE SetMax(ends)

\* len(re.findall(...)): the matches are found left to right and do not overlap
RECURSIVE CountComma(_, _)
CountComma(s, i) ==
    IF i > Len(s) THEN 0
    ELSE LET e == CommaMatchEnd(s, i)
         IN  IF e = 0 THEN CountComma(s, i + 1) ELSE 1 + CountComma(s, e + 1)

RECURSIVE CountNumbers(_, _)
CountNumbers(s, i) ==
    IF i > Len(s) THEN 0
    ELSE LET e == NumberMatchEnd(s, i)
         IN  IF e = 0 THEN CountNumbers(s, i + 1) ELSE 1 + CountNumbers(s, e + 1)

RECURSIVE CountWords(_, _)
CountWords(s, i) ==
    IF i > Len(s) THEN 0
    ELSE LET e == WordMatchEnd(s, i)
         IN  IF e = 0 THEN CountWords(s, i + 1) ELSE 1 + CountWords(s, e + 1)

\* ' '.join(str(cell) for cell in row)
RowText(row) == Join(row, " ")


----------------------------------------------------------------------------
(* Cells: the values of a parsed row.  None is NullCell, an int is an      *)
(* Integer cell, a float is a Float cell holding its integer part n and    *)
(* its fraction digits s without trailing zeros, a str is a Text cell.     *)

NullCell == [t |-> "Null", n |-> 0, s |-> ""]

IntCell(n) == [t |-> "Integer", n |-> n, s |-> ""]

TextCell(s) == [t |-> "Text", n |-> 0, s |-> s]

RECURSIVE StripTrailingZeros(_)
StripTrailingZeros(s) ==
    IF s # "" /\ CharAt(s, Len(s)) = "0"
    THEN StripTrailingZeros(SubSeq(s, 1, Len(s) - 1))
    ELSE s

\* float(clean) for digits with exactly one "."
FloatCell(clean) ==
    LET dot == IndexIn(".", clean)
    IN  [t |-> "Float",
         n |-> StrToInt(SubSeq(clean, 1, dot - 1)),
         s |-> StripTrailingZeros(SubSeq(clean, dot + 1, Len(clean)))]

\* an optional value: None, or a string
None == [set |-> FALSE, text |-> ""]

Some(s) == [set |-> TRUE, text |-> s]

\* x or ''
OrEmpty(x) == IF x.set THEN x.text ELSE ""

----------------------------------------------------------------------------
(* smart_parse_table, first pass: one part of a data row to a value *)

\* a variant that forgets the comma
StripSeparators_KeepComma(part_str) == ReplaceChar(part_str, " ", "")

\* part_str.replace(',', '').replace(' ', '')
StripSeparators(part_str) == ReplaceChar(ReplaceChar(part_str, ",", ""), " ", "")

\* the "common OCR fixes"
OcrFix(clean) ==
    ReplaceChar(ReplaceChar(ReplaceChar(ReplaceChar(ReplaceChar(ReplaceChar(
        clean, "O", "0"), "o", "0"), "l", "1"), "I", "1"), "S", "5"), "Z", "2")

CleanPart(part_str) == OcrFix(StripSeparators(part_str))

\* a variant that knows the hyphen only
IsDashClean_HyphenOnly(clean) == clean = "-"

IsDashClean(clean) == clean = "-" \/ clean = EmDash

\* a variant without the except clause of lines 292-293
ParsePart_Unguarded(part_str) ==
    LET clean == CleanPart(part_str)
    IN  IF IsDashClean(clean) THEN NullCell
        ELSE IF IsDigitStr(ReplaceChar(clean, ".", ""))
        THEN IF Contains(clean, ".")
             THEN (IF CountChar(clean, ".") = 1 THEN FloatCell(clean)
                   ELSE [t |-> "ValueError", n |-> 0, s |-> part_str])
             ELSE IntCell(StrToInt(clean))
        ELSE TextCell(part_str)

ParsePart(part_str) ==
    LET clean == CleanPart(part_str)
    IN  IF IsDashClean(clean) THEN NullCell
        ELSE IF IsDigitStr(ReplaceChar(clean, ".", ""))
        THEN IF Contains(clean, ".")
             THEN (IF CountChar(clean, ".") = 1 THEN FloatCell(clean)
                   ELSE TextCell(part_str))   \* float() raises ValueError
             ELSE IntCell(StrToInt(clean))
        ELSE TextCell(part_str)

\* the parts that are empty after strip() are skipped
RECURSIVE FirstPass(_)
FirstPass(parts) ==
    IF parts = <<>> THEN <<>>
    ELSE LET part_str == Strip(Head(parts))
         IN  IF part_str = "" THEN FirstPass(Tail(parts))
             ELSE <<ParsePart(part_str)>> \o FirstPass(Tail(parts))

----------------------------------------------------------------------------
(* smart_parse_table, second pass: "ALL SEXES" and French number groups *)

\* a variant that never allows a second group
MaxGroups_One(first_num) == 1

\* a variant with the cap of the small leads for every lead
MaxGroups_Two(first_num) == 2

MaxGroups(first_num) == IF first_num <= 4 THEN 2 ELSE 1

IsGroup(v) == v.t = "Integer" /\ 100 <= v.n /\ v.n <= 999

\* the groups collected behind position i: the index after the last one
RECURSIVE CollectGroups(_, _, _, _)
CollectGroups(tv, j, collected, max_groups) ==
    IF j <= Len(tv) /\ IsGroup(tv[j]) /\ collected < max_groups
    THEN CollectGroups(tv, j + 1, collected + 1, max_groups)
    ELSE j

\* ''.join(str(n).zfill(3) if idx > 0 else str(n) ...) of tv[i..j-1], as an int
RECURSIVE GroupDigits(_, _, _)
GroupDigits(tv, k, j) ==
    IF k >= j THEN "" ELSE ZFill3(IntToStr(tv[k].n)) \o GroupDigits(tv, k + 1, j)

CombinedNumber(tv, i, j) == StrToInt(IntToStr(tv[i].n) \o GroupDigits(tv, i + 1, j))

IsAllSexes(tv, i) ==
    /\ i < Len(tv)
    /\ tv[i].t = "Text"
    /\ tv[i + 1].t = "Text"
    /\ Upper(tv[i].s) = "ALL"
    /\ Upper(tv[i + 1].s) = "SEXES"

StartsFrenchGroup(tv, i, french) ==
    french /\ tv[i].t = "Integer" /\ tv[i].n < 1000 /\ i < Len(tv)

\* a variant that goes on one value too far behind a merged number
RECURSIVE SecondPass_Skip(_, _, _)
SecondPass_Skip(tv, i, french) ==
    IF i > Len(tv) THEN <<>>
    ELSE IF IsAllSexes(tv, i)
         THEN <<TextCell("ALL SEXES")>> \o SecondPass_Skip(tv, i + 2, french)
    ELSE IF StartsFrenchGroup(tv, i, french)
         THEN LET j == CollectGroups(tv, i + 1, 0, MaxGroups(tv[i].n))
              IN  IF j - i >= 2
                  THEN <<IntCell(CombinedNumber(tv, i, j))>> \o SecondPass_Skip(tv, j + 1, french)
                  ELSE <<tv[i]>> \o SecondPass_Skip(tv, i + 1, french)
    ELSE <<tv[i]>> \o SecondPass_Skip(tv, i + 1, french)

RECURSIVE SecondPass(_, _, _)
SecondPass(tv, i, french) ==
    IF i > Len(tv) THEN <<>>
    ELSE IF IsAllSexes(tv, i)
         THEN <<TextCell("ALL SEXES")>> \o SecondPass(tv, i + 2, french)
    ELSE IF StartsFrenchGroup(tv, i, french)
         THEN LET j == CollectGroups(tv, i + 1, 0, MaxGroups(tv[i].n))
              IN  IF j - i >= 2
                  THEN <<IntCell(CombinedNumber(tv, i, j))>> \o SecondPass(tv, j, french)
                  ELSE <<tv[i]>> \o SecondPass(tv, i + 1, french)
    ELSE <<tv[i]>> \o SecondPass(tv, i + 1, french)

\* the parts of a data row: a single-cell row is split on white space
RowParts(row) == IF Len(row) = 1 THEN SplitWs(row[1]) ELSE row

\* parsed_row: the context columns, then the combined values
ParsedRow(item, tv, french) ==
    <<TextCell(OrEmpty(item.region)), TextCell(OrEmpty(item.section))>>
        \o SecondPass(tv, 1, french)


----------------------------------------------------------------------------
(* smart_parse_table: locale detection and row classification *)

\* rows[:n]
Prefix(seq, n) == SubSeq(seq, 1, IF Len(seq) < n THEN Len(seq) ELSE n)

RECURSIVE CommaCount(_)
CommaCount(rs) ==
    IF rs = <<>> THEN 0 ELSE CountComma(RowText(Head(rs)), 1) + CommaCount(Tail(rs))

\* a variant that never detects the English format
DetectFrench_Always(rs) == TRUE

\* a variant that counts over all the rows of the document
DetectFrench_AllRows(rs) == ~(CommaCount(rs) >= 3)

\* French unless the first 20 rows hold at least 3 comma-grouped numbers
DetectFrench(rs) == ~(CommaCount(Prefix(rs, 20)) >= 3)

header_keywords ==
    <<"TABLE", "POPULATION", "COUNT", "AREA/", "REGION", "DISTRICT", "COLUMN",
      "VOTERS", "VOTES", "PERCENTAGE", "RELIGION", "CATEGORY">>

section_keywords ==
    <<"OVERALL", "RURAL", "URBAN", "DISTRICT", "DIVISION", "CONSTITUENCY",
      "PROVINCE", "STATE", "COUNTY", "REGION">>

column_keywords ==
    <<"SEX", "TOTAL", "MUSLIM", "CHRISTIAN", "HINDU", "MALE", "FEMALE", "AREA",
      "COUNT", "VOTES", "VOTERS">>

\* any(kw in text for kw in kws)
AnyKeyword(text, kws) == \E k \in 1..Len(kws) : Contains(text, kws[k])

\* has_header, from row_text.upper()
HasHeader(upper_text) == AnyKeyword(upper_text, header_keywords)

\* is_section
IsSection(upper_text, numbers_count) ==
    AnyKeyword(upper_text, section_keywords) /\ numbers_count = 0

\* has_data
HasData(words_count, numbers_count, dashes) ==
    words_count >= 1 /\ (numbers_count >= 1 \/ dashes >= 3)

\* the test of line 195
IsRegionText(upper_text) ==
    Contains(upper_text, "DISTRICT") \/ Contains(upper_text, "DIVISION")

\* a variant that tests for a data row first
RowTag_DataFirst(row) ==
    LET row_text      == RowText(row)
        upper_text    == Upper(row_text)
        numbers_count == CountNumbers(row_text, 1)
        words_count   == CountWords(row_text, 1)
        dashes        == CountChar(row_text, "-")
    IN  IF HasData(words_count, numbers_count, dashes) THEN "DataRow"
        ELSE IF HasHeader(upper_text) /\ numbers_count = 0 THEN "Header"
        ELSE IF IsSection(upper_text, numbers_count)
             THEN (IF IsRegionText(upper_text) THEN "RegionMarker" ELSE "SectionMarker")
        ELSE "Noise"

\* the branch of the classification chain that a row takes
RowTag(row) ==
    LET row_text      == RowText(row)
        upper_text    == Upper(row_text)
        numbers_count == CountNumbers(row_text, 1)
        words_count   == CountWords(row_text, 1)
        dashes        == CountChar(row_text, "-")
    IN  IF HasHeader(upper_text) /\ numbers_count = 0 THEN "Header"
        ELSE IF IsSection(upper_text, numbers_count)
             THEN (IF IsRegionText(upper_text) THEN "RegionMarker" ELSE "SectionMarker")
        ELSE IF HasData(words_count, numbers_count, dashes) THEN "DataRow"
        ELSE "Noise"

\* a variant that forgets the region at a section marker
RegionAfter_Forget(tag, row_text, region) ==
    IF tag = "RegionMarker" THEN Some(row_text)
    ELSE IF tag = "SectionMarker" THEN None
    ELSE region

\* lines 193-199: the context cursor behind a row
RegionAfter(tag, row_text, region) ==
    IF tag = "RegionMarker" THEN Some(row_text) ELSE region

SectionAfter(tag, row_text, section) ==
    IF tag = "RegionMarker" THEN None
    ELSE IF tag = "SectionMarker" THEN Some(row_text)
    ELSE section

----------------------------------------------------------------------------
(* smart_parse_table: the header *)

\* sum(1 for kw in column_keywords if kw in candidate_text.upper())
KeywordMatches(candidate) ==
    LET upper_text == Upper(RowText(candidate))
    IN  Cardinality({k \in 1..Len(column_keywords) :
                        Contains(upper_text, column_keywords[k])})

\* the loop over the candidates, with its break
RECURSIVE ScanHeaders(_, _)
ScanHeaders(cands, k) ==
    IF k > Len(cands) THEN <<>>
    ELSE IF KeywordMatches(cands[k]) >= 3 THEN cands[k]
    ELSE ScanHeaders(cands, k + 1)

\* a variant that takes the last candidate with 3 matches
ChooseBestHeader_Last(cands) ==
    LET enough == {k \in 1..Len(cands) : KeywordMatches(cands[k]) >= 3}
    IN  IF enough = {} THEN <<>> ELSE cands[SetMax(enough)]

ChooseBestHeader(cands) == ScanHeaders(cands, 1)

HeaderParts(header_text) ==
    IF Len(SplitWs2(header_text)) < 5 THEN SplitWs(header_text) ELSE SplitWs2(header_text)

\* "AREA/" + "SEX" -> "AREA/SEX"
RECURSIVE CombineHeaders(_, _)
CombineHeaders(parts, i) ==
    IF i > Len(parts) THEN <<>>
    ELSE IF i < Len(parts) /\ Len(parts[i]) <= 6 /\ Contains(parts[i], "/")
         THEN <<parts[i] \o parts[i + 1]>> \o CombineHeaders(parts, i + 2)
         ELSE <<parts[i]>> \o CombineHeaders(parts, i + 1)

RECURSIVE StripAll(_)
StripAll(hs) ==
    IF hs = <<>> THEN <<>>
    ELSE IF Strip(Head(hs)) = "" THEN StripAll(Tail(hs))
    ELSE <<Strip(Head(hs))>> \o StripAll(Tail(hs))

MaxLen(seqs) == IF seqs = <<>> THEN 0 ELSE SetMax({Len(seqs[k]) : k \in 1..Len(seqs)})

GenericHeaders(rs) == [k \in 1..MaxLen(rs) |-> "Column_" \o IntToStr(k)]

SynthesizeHeaders(best, rs) ==
    IF best # <<>> THEN StripAll(CombineHeaders(HeaderParts(RowText(best)), 1))
    ELSE GenericHeaders(rs)

----------------------------------------------------------------------------
(* main of extract_universal.py: rectangular rows without duplicates *)

\* while len(headers) < max_cols: headers.append(f'Col_{len(headers)+1}')
ExtendHeaders(hs, max_cols) ==
    [k \in 1..(IF Len(hs) < max_cols THEN max_cols ELSE Len(hs)) |->
        IF k <= Len(hs) THEN hs[k] ELSE "Col_" \o IntToStr(k)]

\* a variant that takes any result for data
NoDataRows_Never(data_rows) == FALSE

\* if not data_rows: / if df.empty:
NoDataRows(data_rows) == data_rows = <<>>

\* a variant that leaves the row as it is
PadRow_Short(row, max_cols) == row

\* while len(row) < max_cols: row.append(None)
PadRow(row, max_cols) ==
    [k \in 1..(IF Len(row) < max_cols THEN max_cols ELSE Len(row)) |->
        IF k <= Len(row) THEN row[k] ELSE NullCell]

PadRows(data_rows) == [k \in 1..Len(data_rows) |-> PadRow(data_rows[k], MaxLen(data_rows))]

\* two cells that pandas holds to be the same value: 1 and 1.0 are
CellEq(a, b) ==
    \/ a = b
    \/ /\ a.t \in {"Integer", "Float"}
       /\ b.t \in {"Integer", "Float"}
       /\ a.n = b.n
       /\ a.s = b.s

RowEq(r1, r2) == Len(r1) = Len(r2) /\ \A k \in 1..Len(r1) : CellEq(r1[k], r2[k])

\* df.drop_duplicates(): keep="first", the order is kept
RECURSIVE DropFrom(_, _, _)
DropFrom(rs, k, kept) ==
    IF k > Len(rs) THEN kept
    ELSE IF \E j \in 1..Len(kept) : RowEq(kept[j], rs[k])
         THEN DropFrom(rs, k + 1, kept)
         ELSE DropFrom(rs, k + 1, Append(kept, rs[k]))

\* a variant that drops nothing
DropDuplicates_Off(rs) == rs

DropDuplicates(rs) == DropFrom(rs, 1, <<>>)


----------------------------------------------------------------------------
(* extract_universal.py as a state machine.  main hands the extracted rows *)
(* to smart_parse_table and assembles what it returns.                     *)

\* smart_parse_table, lines 130-149: no rows, or the number format
U_DetectFormat ==
    /\ script \in {"universal", "app"}
    /\ pc = "detect"
    /\ IF rows = <<>>
       THEN /\ pc' = "assemble"          \* return [], []
            /\ UNCHANGED uses_french_format
       ELSE /\ pc' = "classify"
            /\ uses_french_format' = DetectFrench(rows)
    /\ idx' = 1
    /\ UNCHANGED <<temp_values, script, rows, header_candidates, data_candidates, current_region,
                   current_section, headers, parsed_data, best_header, columns,
                   records, exit_code>>
    /\ UNCHANGED <<pages, attempts, method, written>>
    /\ UNCHANGED batch_vars
    /\ UNCHANGED warning
    /\ UNCHANGED config_vars

\* one turn of the loop of lines 156-206
U_ClassifyRow ==
    /\ script \in {"universal", "app"}
    /\ pc = "classify"
    /\ idx <= Len(rows)
    /\ LET row == rows[idx]
           tag == RowTag(row)
       IN  /\ header_candidates' =
                 IF tag = "Header" THEN Append(header_candidates, row)
                 ELSE header_candidates
           /\ current_region' = RegionAfter(tag, RowText(row), current_region)
           /\ current_section' = SectionAfter(tag, RowText(row), current_section)
           /\ data_candidates' =
                 IF tag = "DataRow"
                 THEN Append(data_candidates,
                             [region |-> current_region, section |-> current_section,
                              row |-> row])
                 ELSE data_candidates
    /\ idx' = idx + 1
    /\ pc' = IF idx = Len(rows) THEN "header" ELSE "classify"
    /\ UNCHANGED <<temp_values, script, rows, uses_french_format, headers, parsed_data,
                   best_header, columns, records, exit_code>>
    /\ UNCHANGED <<pages, attempts, method, written>>
    /\ UNCHANGED batch_vars
    /\ UNCHANGED warning
    /\ UNCHANGED config_vars

\* lines 208-248: the best header and the column names
U_ChooseHeader ==
    /\ script \in {"universal", "app"}
    /\ pc = "header"
    /\ best_header' = ChooseBestHeader(header_candidates)
    /\ headers' = SynthesizeHeaders(best_header', rows)
    /\ idx' = 1
    /\ pc' = IF data_candidates = <<>> THEN "return" ELSE "parse"
    /\ UNCHANGED <<temp_values, script, rows, uses_french_format, header_candidates,
                   data_candidates, current_region, current_section, parsed_data,
                   columns, records, exit_code>>
    /\ UNCHANGED <<pages, attempts, method, written>>
    /\ UNCHANGED batch_vars
    /\ UNCHANGED warning
    /\ UNCHANGED config_vars

\* one turn of the loop of lines 253-366, up to the end of the first pass
U_FirstPass ==
    /\ script \in {"universal", "app"}
    /\ pc = "parse"
    /\ idx <= Len(data_candidates)
    /\ temp_values' = FirstPass(RowParts(data_candidates[idx].row))
    /\ pc' = "combine"
    /\ UNCHANGED <<script, rows, idx, uses_french_format, header_candidates,
                   data_candidates, current_region, current_section, headers,
                   parsed_data, best_header, columns, records, exit_code>>
    /\ UNCHANGED <<pages, attempts, method, written>>
    /\ UNCHANGED batch_vars
    /\ UNCHANGED warning
    /\ UNCHANGED config_vars

\* the rest of the turn: the second pass, and the row is kept
U_SecondPass ==
    /\ script \in {"universal", "app"}
    /\ pc = "combine"
    /\ LET parsed_row == ParsedRow(data_candidates[idx], temp_values, uses_french_format)
       IN  parsed_data' =
               IF Len(parsed_row) > 2 THEN Append(parsed_data, parsed_row)
               ELSE parsed_data
    /\ idx' = idx + 1
    /\ pc' = IF idx = Len(data_candidates) THEN "return" ELSE "parse"
    /\ UNCHANGED <<script, rows, uses_french_format, header_candidates,
                   data_candidates, current_region, current_section, headers,
                   temp_values, best_header, columns, records, exit_code>>
    /\ UNCHANGED <<pages, attempts, method, written>>
    /\ UNCHANGED batch_vars
    /\ UNCHANGED warning
    /\ UNCHANGED config_vars

\* lines 368-371: REGION and SECTION lead the headers
U_Return ==
    /\ script \in {"universal", "app"}
    /\ pc = "return"
    /\ headers' = <<"REGION", "SECTION">> \o headers
    /\ pc' = "assemble"
    /\ UNCHANGED <<temp_values, script, rows, idx, uses_french_format, header_candidates,
                   data_candidates, current_region, current_section, parsed_data,
                   best_header, columns, records, exit_code>>
    /\ UNCHANGED <<pages, attempts, method, written>>
    /\ UNCHANGED batch_vars
    /\ UNCHANGED warning
    /\ UNCHANGED config_vars

\* main, lines 425-442: exit without data rows, else pad and drop duplicates
U_Assemble ==
    /\ script = "universal"
    /\ pc = "assemble"
    /\ pc' = "done"
    /\ IF NoDataRows(parsed_data)
       THEN /\ exit_code' = 1
            /\ UNCHANGED <<headers, columns, records, written>>
       ELSE /\ headers' = ExtendHeaders(headers, MaxLen(parsed_data))
            /\ columns' = Prefix(headers', MaxLen(parsed_data))
            /\ records' = DropDuplicates(PadRows(parsed_data))
            /\ written' = TRUE
            /\ exit_code' = 0
    /\ UNCHANGED <<temp_values, script, rows, idx, uses_french_format, header_candidates,
                   data_candidates, current_region, current_section, parsed_data,
                   best_header>>
    /\ UNCHANGED <<pages, attempts, method>>
    /\ UNCHANGED batch_vars
    /\ warning' = IF exit_code' = 1 THEN "WARNING: No data rows found!" ELSE warning
    /\ UNCHANGED config_vars

NextUniversal ==
    \/ U_DetectFormat
    \/ U_ClassifyRow
    \/ U_ChooseHeader
    \/ U_FirstPass
    \/ U_SecondPass
    \/ U_Return
    \/ U_Assemble

----------------------------------------------------------------------------
(* extract_hierarchical.py: extract_hierarchical_table.  Its lines are the *)
(* rows of the model, one cell each; its list "rows" is parsed_data.       *)

\* the index behind the run of blanks at i, 0 if there is no blank at i
SkipBlanks(s, i) == IF RunEnd(s, i, {" "}) < i THEN 0 ELSE RunEnd(s, i, {" "}) + 1

\* re.match(r'^1\s+2\s+3\s+4', line)
IsColumnNumbers(line) ==
    LET p2 == SkipBlanks(line, 2)
        p3 == IF p2 = 0 THEN 0 ELSE SkipBlanks(line, p2 + 1)
        p4 == IF p3 = 0 THEN 0 ELSE SkipBlanks(line, p3 + 1)
    IN  /\ CharAt(line, 1) = "1"
        /\ p2 # 0 /\ CharAt(line, p2) = "2"
        /\ p3 # 0 /\ CharAt(line, p3) = "3"
        /\ p4 # 0 /\ CharAt(line, p4) = "4"

\* lines 25-29: the index (from 1) of the first line of the data
DataStart(rs) ==
    LET hits == {k \in 1..Len(rs) : IsColumnNumbers(rs[k][1])}
    IN  IF hits = {} THEN 1 ELSE SetMin(hits) + 1

sex_categories == <<"ALL SEXES", "MALE", "FEMALE", "TRANSGENDER">>

\* the first category that the line starts with, "" for None
FoundSex(line) ==
    LET hits == {k \in 1..Len(sex_categories) : StartsWith(line, sex_categories[k])}
    IN  IF hits = {} THEN "" ELSE sex_categories[SetMin(hits)]

H_IsRegion(line) == Contains(line, "DISTRICT") \/ Contains(line, "SUB-DIVISION")

H_IsSection(line) == line \in {"OVERALL", "RURAL", "URBAN"}

\* digits, with single underscores between them, as int() and float() read them
IsDigitGroup(body) ==
    /\ body # ""
    /\ IsDigit(CharAt(body, 1))
    /\ IsDigit(CharAt(body, Len(body)))
    /\ \A i \in 1..Len(body) : IsDigit(CharAt(body, i)) \/ CharAt(body, i) = "_"
    /\ ~Contains(body, "__")

HasSign(token) == token # "" /\ CharAt(token, 1) \in {"+", "-"}

Unsigned(token) == IF HasSign(token) THEN Tail(token) ELSE token

\* int(token) does not raise
PyIntOk(token) == IsDigitGroup(Unsigned(token))

PyInt(token) ==
    LET n == StrToInt(ReplaceChar(Unsigned(token), "_", ""))
    IN  IF CharAt(token, 1) = "-" THEN 0 - n ELSE n

\* float(token) does not raise, for a token that int() refused: a decimal
\* point, or inf, infinity, nan (forms with an exponent are in no document
\* of the model)
IsDecimal(body) ==
    /\ CountChar(body, ".") = 1
    /\ LET dot   == IndexIn(".", body)
           whole == SubSeq(body, 1, dot - 1)
           frac  == SubSeq(body, dot + 1, Len(body))
       IN  /\ whole = "" \/ IsDigitGroup(whole)
           /\ frac = "" \/ IsDigitGroup(frac)
           /\ whole # "" \/ frac # ""

IsFloatWord(body) == Upper(body) \in {"INF", "INFINITY", "NAN"}

PyFloatOk(token) == IsDecimal(Unsigned(token)) \/ IsFloatWord(Unsigned(token))

\* a negative float carries its sign in front of its fraction digits
PyFloat(token) ==
    LET body == Unsigned(token)
        neg  == IF CharAt(token, 1) = "-" THEN "-" ELSE ""
    IN  IF IsFloatWord(body)
        THEN [t |-> "Float", n |-> 0, s |-> neg \o SubSeq(Upper(body), 1, 3)]
        ELSE LET c == FloatCell(ReplaceChar(body, "_", ""))
             IN  [t |-> "Float", n |-> c.n, s |-> neg \o c.s]

\* lines 63-76: the values of the tokens; a token that is no number is skipped
RECURSIVE H_Values(_)
H_Values(tokens) ==
    IF tokens = <<>> THEN <<>>
    ELSE LET token == ReplaceChar(Head(tokens), ",", "")
         IN  IF token = "-" \/ token = "" THEN <<NullCell>> \o H_Values(Tail(tokens))
             ELSE IF PyIntOk(token) THEN <<IntCell(PyInt(token))>> \o H_Values(Tail(tokens))
             ELSE IF PyFloatOk(token) THEN <<PyFloat(token)>> \o H_Values(Tail(tokens))
             ELSE H_Values(Tail(tokens))

\* lines 78-83: exactly 7 values
SevenValues(values) == [k \in 1..7 |-> IF k <= Len(values) THEN values[k] ELSE NullCell]

\* None is an empty cell of the DataFrame
OptCell(x) == IF x.set THEN TextCell(x.text) ELSE NullCell

\* lines 55-87
H_Row(line, found_sex, region, section) ==
    <<OptCell(region), OptCell(section), TextCell(found_sex)>>
        \o SevenValues(H_Values(SplitWs(Strip(SubSeq(line, Len(found_sex) + 1, Len(line))))))

\* df[col].ffill(): an empty cell takes the value above it
RECURSIVE FFill(_, _, _)
FFill(rs, col, k) ==
    IF k > Len(rs) THEN rs
    ELSE IF k > 1 /\ rs[k][col] = NullCell
         THEN FFill([rs EXCEPT ![k][col] = rs[k - 1][col]], col, k + 1)
         ELSE FFill(rs, col, k + 1)

hierarchical_headers ==
    <<"REGION", "SECTION", "AREA/SEX", "TOTAL", "MUSLIM", "CHRISTIAN", "HINDU",
      "QADIANI/AHMADI", "SCHEDULED CASTES", "OTHERS">>

\* lines 24-29
H_FindStart ==
    /\ script \in {"hierarchical", "app"}
    /\ pc = "h_start"
    /\ idx' = DataStart(rows)
    /\ pc' = IF idx' > Len(rows) THEN "h_frame" ELSE "h_loop"
    /\ UNCHANGED <<script, rows, uses_french_format, header_candidates,
                   data_candidates, current_region, current_section, headers,
                   temp_values, parsed_data, best_header, columns, records, exit_code>>
    /\ UNCHANGED <<pages, attempts, method, written>>
    /\ UNCHANGED batch_vars
    /\ UNCHANGED warning
    /\ UNCHANGED config_vars

\* one turn of the loop of lines 36-87
H_ProcessLine ==
    /\ script \in {"hierarchical", "app"}
    /\ pc = "h_loop"
    /\ idx <= Len(rows)
    /\ LET line == rows[idx][1]
       IN  IF H_IsRegion(line)
           THEN /\ current_region' = Some(line)
                /\ UNCHANGED <<current_section, parsed_data>>
           ELSE IF H_IsSection(line)
           THEN /\ current_section' = Some(line)
                /\ UNCHANGED <<current_region, parsed_data>>
           ELSE /\ parsed_data' =
                     IF FoundSex(line) # ""
                     THEN Append(parsed_data,
                                 H_Row(line, FoundSex(line), current_region, current_section))
                     ELSE parsed_data
                /\ UNCHANGED <<current_region, current_section>>
    /\ idx' = idx + 1
    /\ pc' = IF idx = Len(rows) THEN "h_frame" ELSE "h_loop"
    /\ UNCHANGED <<script, rows, uses_french_format, header_candidates,
                   data_candidates, headers, temp_values, best_header, columns,
                   records, exit_code>>
    /\ UNCHANGED <<pages, attempts, method, written>>
    /\ UNCHANGED batch_vars
    /\ UNCHANGED warning
    /\ UNCHANGED config_vars

\* lines 89-98: the DataFrame, forward filled; main, line 122, writes it
H_Frame ==
    /\ script = "hierarchical"
    /\ pc = "h_frame"
    /\ headers' = hierarchical_headers
    /\ columns' = hierarchical_headers
    /\ records' = FFill(FFill(parsed_data, 1, 1), 2, 1)
    /\ written' = TRUE
    /\ exit_code' = 0
    /\ pc' = "done"
    /\ UNCHANGED <<script, rows, idx, uses_french_format, header_candidates,
                   data_candidates, current_region, current_section, temp_values,
                   parsed_data, best_header>>
    /\ UNCHANGED <<pages, attempts, method>>
    /\ UNCHANGED batch_vars
    /\ UNCHANGED warning
    /\ UNCHANGED config_vars

NextHierarchical ==
    \/ H_FindStart
    \/ H_ProcessLine
    \/ H_Frame

----------------------------------------------------------------------------
(* extract_smart_pdf.py: parse_census_data and the assembly of main.  An   *)
(* extracted item is a row of the model: a text line is a row of one cell. *)

\* lines 251-260: the line of an item; the empty cells of a table row are left out
S_Line(row) == Join(SelectSeq(row, LAMBDA cell : cell # ""), " ")

smart_region_keywords ==
    <<"DISTRICT", "SUB-DIVISION", "CONSTITUENCY", "DIVISION", "TEHSIL", "TALUKA">>

\* line 266
S_IsRegion(line) == AnyKeyword(Upper(line), smart_region_keywords)

\* line 272
S_IsSection(line) == Upper(line) \in {"OVERALL", "RURAL", "URBAN"}

\* line 277
S_IsData(line) == \E k \in 1..Len(sex_categories) : StartsWith(Upper(line), sex_categories[k])

\* lines 281-292: the category, and the word that re.sub takes off the line
S_Word(line) ==
    IF StartsWith(Upper(line), "ALL SEXES") THEN "ALL SEXES"
    ELSE IF StartsWith(Upper(line), "TRANSGENDER") THEN "TRANSGENDER"
    ELSE IF StartsWith(Upper(line), "MALE") THEN "MALE"
    ELSE "FEMALE"

S_Sex(line) == IF S_Word(line) = "ALL SEXES" THEN "ALL" ELSE S_Word(line)

\* re.sub(r'^WORD\s+', '', line, flags=re.IGNORECASE): nothing is taken off a
\* line whose word is not followed by a blank
S_DataPart(line) ==
    LET after == SkipBlanks(line, Len(S_Word(line)) + 1)
    IN  IF after = 0 THEN line ELSE SubSeq(line, after, Len(line))

\* lines 302-305
S_Clean(part) ==
    ReplaceChar(ReplaceChar(ReplaceChar(ReplaceChar(ReplaceChar(ReplaceChar(ReplaceChar(
    ReplaceChar(ReplaceChar(part, ",", ""), "O", "0"), "o", "0"), "Z", "2"), "z", "2"),
        "S", "5"), "s", "5"), "l", "1"), "I", "1")

\* lines 300-310: a dash is None, digits are an integer, anything else is left out
RECURSIVE S_Numbers(_)
S_Numbers(parts) ==
    IF parts = <<>> THEN <<>>
    ELSE LET clean == S_Clean(Head(parts))
         IN  IF clean = "-" \/ clean = EmDash THEN <<NullCell>> \o S_Numbers(Tail(parts))
             ELSE IF IsDigitStr(clean) THEN <<IntCell(StrToInt(clean))>> \o S_Numbers(Tail(parts))
             ELSE S_Numbers(Tail(parts))

\* lines 314-325
S_Row(line, numbers, region, section) ==
    <<TextCell(OrEmpty(region)), TextCell(OrEmpty(section)), TextCell(S_Sex(line))>>
        \o Prefix(numbers, 7)

smart_headers ==
    <<"REGION", "SECTION", "SEX", "TOTAL", "MUSLIM", "CHRISTIAN", "HINDU",
      "QADIANI_AHMADI", "SCHEDULED_CASTES", "OTHERS">>

\* the characters of the lines in the order of their code points; the em dash
\* lies behind them all
CodeChars == " ,-./0123456789ABCDEFGHIJKLMNOPQRSTUVWXYZ_abcdefghijklmnopqrstuvwxyz~"

\* a < b for two str
RECURSIVE StrLess(_, _)
StrLess(a, b) ==
    IF b = "" THEN FALSE
    ELSE IF a = "" THEN TRUE
    ELSE IF Head(a) = Head(b) THEN StrLess(Tail(a), Tail(b))
    ELSE IndexIn(Head(a), CodeChars) < IndexIn(Head(b), CodeChars)

\* line 419: r1 before r2 by REGION, then SECTION, then SEX
KeyLess(r1, r2) ==
    \/ StrLess(r1[1].s, r2[1].s)
    \/ r1[1].s = r2[1].s /\ StrLess(r1[2].s, r2[2].s)
    \/ r1[1].s = r2[1].s /\ r1[2].s = r2[2].s /\ StrLess(r1[3].s, r2[3].s)

\* r behind the last row of sorted that is not behind it by the key
InsertByKey(sorted, r) ==
    LET behind == {k \in 1..Len(sorted) : KeyLess(r, sorted[k])}
        at     == IF behind = {} THEN Len(sorted) + 1 ELSE SetMin(behind)
    IN  SubSeq(sorted, 1, at - 1) \o <<r>> \o SubSeq(sorted, at, Len(sorted))

\* df.sort_values(['REGION', 'SECTION', 'SEX']): on several columns pandas
\* sorts stably, the rows of one key keep their order
RECURSIVE SortValues(_, _, _)
SortValues(rs, k, sorted) ==
    IF k > Len(rs) THEN sorted ELSE SortValues(rs, k + 1, InsertByKey(sorted, rs[k]))

\* one line of the loop of lines 264-326
S_ParseLine ==
    /\ script = "smart"
    /\ pc = "s_loop"
    /\ idx <= Len(rows)
    /\ LET line    == S_Line(rows[idx])
           numbers == S_Numbers(SplitWs(S_DataPart(line)))
       IN  /\ current_region' = IF S_IsRegion(line) THEN Some(line) ELSE current_region
           /\ current_section' =
                 IF ~S_IsRegion(line) /\ S_IsSection(line) THEN Some(Upper(line))
                 ELSE current_section
           /\ parsed_data' =
                 IF ~S_IsRegion(line) /\ ~S_IsSection(line) /\ S_IsData(line) /\ Len(numbers) >= 7
                 THEN Append(parsed_data, S_Row(line, numbers, current_region, current_section))
                 ELSE parsed_data
    /\ idx' = idx + 1
    /\ UNCHANGED <<script, rows, pc, uses_french_format, header_candidates, data_candidates,
                   headers, temp_values, best_header, columns, records, exit_code>>
    /\ UNCHANGED <<pages, attempts, method, written>>
    /\ UNCHANGED batch_vars
    /\ UNCHANGED warning
    /\ UNCHANGED config_vars

\* main, lines 405-422: no row is exit status 1, else drop_duplicates and sort_values
S_Frame ==
    /\ script = "smart"
    /\ pc = "s_loop"
    /\ idx > Len(rows)
    /\ pc' = "done"
    /\ IF NoDataRows(parsed_data)
       THEN /\ exit_code' = 1
            /\ UNCHANGED <<headers, columns, records, written>>
       ELSE /\ headers' = smart_headers
            /\ columns' = smart_headers
            /\ records' = SortValues(DropDuplicates(parsed_data), 1, <<>>)
            /\ written' = TRUE
            /\ exit_code' = 0
    /\ UNCHANGED <<script, rows, idx, uses_french_format, header_candidates, data_candidates,
                   current_region, current_section, temp_values, parsed_data, best_header>>
    /\ UNCHANGED <<pages, attempts, method>>
    /\ UNCHANGED batch_vars
    /\ warning' = IF exit_code' = 1 THEN "WARNING: No data extracted!" ELSE warning
    /\ UNCHANGED config_vars

NextSmart ==
    \/ S_ParseLine
    \/ S_Frame

----------------------------------------------------------------------------
(* The extraction methods.  A page of the PDF is a record: raises says     *)
(* that reading the page throws, text holds the lines of extract_text()    *)
(* (<<>> when there is no text), tables the rows of extract_tables()       *)
(* (<<>> when there is no table).  What OCR recognises is an input of the  *)
(* OCR step: raises, or the lines of the recognised text.                  *)

Page(raises, text, tables) == [raises |-> raises, text |-> text, tables |-> tables]

OcrResult(raises, lines) == [raises |-> raises, lines |-> lines]

AnyRaises(ps) == \E k \in 1..Len(ps) : ps[k].raises

RECURSIVE Concat(_)
Concat(seqs) == IF seqs = <<>> THEN <<>> ELSE Head(seqs) \o Concat(Tail(seqs))

StripCells(row) == [k \in 1..Len(row) |-> Strip(row[k])]

\* extract_universal.py lines 63-78: the rows of one page, its text first
U_PageRows(page) ==
    IF page.text # <<>>
    THEN LET kept == SelectSeq(page.text, LAMBDA line : Len(Strip(line)) > 2)
         IN  [k \in 1..Len(kept) |-> <<Strip(kept[k])>>]
    ELSE LET kept == SelectSeq(page.tables,
                         LAMBDA row : \E k \in 1..Len(row) : Strip(row[k]) # "")
         IN  [k \in 1..Len(kept) |-> StripCells(kept[k])]

\* extract_universal.py lines 53-84: one try around all pages
try_pdfplumber(ps) ==
    IF AnyRaises(ps) THEN [rows |-> <<>>, success |-> FALSE]
    ELSE [rows |-> Concat([k \in 1..Len(ps) |-> U_PageRows(ps[k])]), success |-> TRUE]

\* extract_universal.py lines 107-112: the rows of the recognised lines
try_tesseract(lines) ==
    LET kept == SelectSeq(lines, LAMBDA line : Strip(line) # "")
    IN  [k \in 1..Len(kept) |-> SplitWs2(Strip(kept[k]))]

\* what OCR can answer
OcrResults ==
    {OcrResult(TRUE, <<>>), OcrResult(FALSE, <<>>),
     OcrResult(FALSE, <<"  ", "URBAN", "MALE 10 20 30 40 50 60 70", "Abc 1,200 30">>)}

\* a variant that stops after the native attempt
NativeIsEnough_Always(result) == TRUE

\* extract_universal.py line 405
NativeIsEnough(result) == result.success /\ result.rows # <<>>

\* main, lines 403-410: pdfplumber, its rows if there are any
U_TryPdfplumber ==
    /\ script = "universal"
    /\ pc = "u_native"
    /\ attempts' = Append(attempts, "pdfplumber")
    /\ IF NativeIsEnough(try_pdfplumber(pages))
       THEN /\ rows' = try_pdfplumber(pages).rows
            /\ method' = "pdfplumber"
            /\ pc' = "detect"
       ELSE /\ rows' = try_pdfplumber(pages).rows
            /\ UNCHANGED method
            /\ pc' = "u_ocr"
    /\ UNCHANGED <<script, idx, uses_french_format, header_candidates, data_candidates,
                   current_region, current_section, headers, temp_values, parsed_data,
                   best_header, columns, records, exit_code, pages, written>>
    /\ UNCHANGED batch_vars
    /\ UNCHANGED warning
    /\ UNCHANGED config_vars

\* main, lines 406-408: Tesseract; an exception of try_tesseract ends the
\* script with a traceback and exit status 1
U_TryTesseract ==
    /\ script = "universal"
    /\ pc = "u_ocr"
    /\ attempts' = Append(attempts, "Tesseract OCR")
    /\ \E result \in OcrResults :
          IF result.raises
          THEN /\ exit_code' = 1
               /\ pc' = "done"
               /\ UNCHANGED <<rows, method>>
          ELSE /\ rows' = try_tesseract(result.lines)
               /\ method' = "Tesseract OCR"
               /\ pc' = "detect"
               /\ UNCHANGED exit_code
    /\ UNCHANGED <<script, idx, uses_french_format, header_candidates, data_candidates,
                   current_region, current_section, headers, temp_values, parsed_data,
                   best_header, columns, records, pages, written>>
    /\ UNCHANGED batch_vars
    /\ warning' = IF exit_code' = 1 THEN "Traceback" ELSE warning
    /\ UNCHANGED config_vars

\* the length of text.strip(), the lines joined by one character each
TextLength(lines) == Len(Strip(Join(lines, " ")))

\* extract_smart_pdf.py lines 62-84
is_scanned_pdf(ps) ==
    IF ps = <<>> \/ ps[1].raises THEN TRUE
    ELSE ~(ps[1].text # <<>> /\ TextLength(ps[1].text) > 100)

\* extract_smart_pdf.py lines 104-126: the items of one page, its tables first
S_PageItems(page) ==
    IF page.tables # <<>>
    THEN SelectSeq(page.tables, LAMBDA row : \E k \in 1..Len(row) : row[k] # "")
    ELSE LET kept == SelectSeq(page.text, LAMBDA line : Strip(line) # "")
         IN  [k \in 1..Len(kept) |-> <<Strip(kept[k])>>]

\* extract_smart_pdf.py lines 87-128
extract_with_pdfplumber(ps) == Concat([k \in 1..Len(ps) |-> S_PageItems(ps[k])])

\* extract_smart_pdf.py lines 221-228 and 262: the items of the recognised lines
S_OcrItems(lines) ==
    LET kept == SelectSeq(lines, LAMBDA line : Strip(line) # "")
    IN  [k \in 1..Len(kept) |-> <<Strip(kept[k])>>]

\* main, lines 382-385: pdfplumber for a born-digital PDF; an exception
\* leads to the fallback of lines 397-400
S_TryPdfplumber ==
    /\ script = "smart"
    /\ pc = "s_extract"
    /\ ~is_scanned_pdf(pages)
    /\ attempts' = Append(attempts, "pdfplumber")
    /\ IF AnyRaises(pages)
       THEN /\ pc' = "s_fallback"
            /\ UNCHANGED <<rows, method>>
       ELSE /\ rows' = extract_with_pdfplumber(pages)
            /\ method' = "pdfplumber"
            /\ pc' = "s_loop"
    /\ UNCHANGED <<script, idx, uses_french_format, header_candidates, data_candidates,
                   current_region, current_section, headers, temp_values, parsed_data,
                   best_header, columns, records, exit_code, pages, written>>
    /\ UNCHANGED batch_vars
    /\ UNCHANGED warning
    /\ UNCHANGED config_vars

\* main, lines 387-393: PaddleOCR for a scanned PDF
S_TryPaddleOcr ==
    /\ script = "smart"
    /\ pc = "s_extract"
    /\ is_scanned_pdf(pages)
    /\ attempts' = Append(attempts, "PaddleOCR")
    /\ \E result \in OcrResults :
          IF result.raises
          THEN /\ pc' = "s_inner"
               /\ UNCHANGED <<rows, method>>
          ELSE /\ rows' = S_OcrItems(result.lines)
               /\ method' = "PaddleOCR"
               /\ pc' = "s_loop"
    /\ UNCHANGED <<script, idx, uses_french_format, header_candidates, data_candidates,
                   current_region, current_section, headers, temp_values, parsed_data,
                   best_header, columns, records, exit_code, pages, written>>
    /\ UNCHANGED batch_vars
    /\ UNCHANGED warning
    /\ UNCHANGED config_vars

\* main, lines 393-395: Tesseract behind a failed PaddleOCR; its exception
\* is caught by the outer except of line 397
S_TryTesseractInner ==
    /\ script = "smart"
    /\ pc = "s_inner"
    /\ attempts' = Append(attempts, "Tesseract")
    /\ \E result \in OcrResults :
          IF result.raises
          THEN /\ pc' = "s_fallback"
               /\ UNCHANGED <<rows, method>>
          ELSE /\ rows' = S_OcrItems(result.lines)
               /\ method' = "Tesseract"
               /\ pc' = "s_loop"
    /\ UNCHANGED <<script, idx, uses_french_format, header_candidates, data_candidates,
                   current_region, current_section, headers, temp_values, parsed_data,
                   best_header, columns, records, exit_code, pages, written>>
    /\ UNCHANGED batch_vars
    /\ UNCHANGED warning
    /\ UNCHANGED config_vars

\* main, lines 397-401: the fallback; its exception ends the script with a
\* traceback and exit status 1
S_TryTesseractFallback ==
    /\ script = "smart"
    /\ pc = "s_fallback"
    /\ attempts' = Append(attempts, "Tesseract")
    /\ \E result \in OcrResults :
          IF result.raises
          THEN /\ exit_code' = 1
               /\ pc' = "done"
               /\ UNCHANGED <<rows, method>>
          ELSE /\ rows' = S_OcrItems(result.lines)
               /\ method' = "Tesseract"
               /\ pc' = "s_loop"
               /\ UNCHANGED exit_code
    /\ UNCHANGED <<script, idx, uses_french_format, header_candidates, data_candidates,
                   current_region, current_section, headers, temp_values, parsed_data,
                   best_header, columns, records, pages, written>>
    /\ UNCHANGED batch_vars
    /\ warning' = IF exit_code' = 1 THEN "Traceback" ELSE warning
    /\ UNCHANGED config_vars

\* extract_hierarchical.py lines 18-22: the lines of the first page; no
\* page, a page that raises and a page without text end the script with a
\* traceback and exit status 1
H_ReadFirstPage ==
    /\ script = "hierarchical"
    /\ pc = "h_read"
    /\ attempts' = Append(attempts, "pdfplumber")
    /\ IF pages = <<>> \/ pages[1].raises \/ pages[1].text = <<>>
       THEN /\ exit_code' = 1
            /\ pc' = "done"
            /\ UNCHANGED rows
       ELSE /\ rows' = S_OcrItems(pages[1].text)
            /\ pc' = "h_start"
            /\ UNCHANGED exit_code
    /\ UNCHANGED <<script, idx, uses_french_format, header_candidates, data_candidates,
                   current_region, current_section, headers, temp_values, parsed_data,
                   best_header, columns, records, pages, method, written>>
    /\ UNCHANGED batch_vars
    /\ warning' = IF exit_code' = 1 THEN "Traceback" ELSE warning
    /\ UNCHANGED config_vars

NextExtract ==
    \/ H_ReadFirstPage
    \/ U_TryPdfplumber
    \/ U_TryTesseract
    \/ S_TryPdfplumber
    \/ S_TryPaddleOcr
    \/ S_TryTesseractInner
    \/ S_TryTesseractFallback

----------------------------------------------------------------------------
(* app.py: extract_from_pdf.  Its hierarchical parser is the code of       *)
(* extract_hierarchical_table, its universal parser is smart_parse_table.  *)

\* app.py lines 226-227: while len(headers) < max_cols: headers.append(f'Column_{...}')
A_ExtendHeaders(hs, max_cols) ==
    [k \in 1..(IF Len(hs) < max_cols THEN max_cols ELSE Len(hs)) |->
        IF k <= Len(hs) THEN hs[k] ELSE "Column_" \o IntToStr(k)]

\* what PaddleOCR can answer in app.py: an exception, or the recognised texts
AiResults == {OcrResult(TRUE, <<>>), OcrResult(FALSE, <<>>), OcrResult(FALSE, <<"MALE", "10">>)}

\* app.py lines 130-134: the lines of the first page; no page, a page that
\* raises and a page without text end in the except of line 282
A_ReadFirstPage ==
    /\ script = "app"
    /\ pc = "a_start"
    /\ attempts' = Append(attempts, "Hierarchical Parser")
    /\ IF pages = <<>> \/ pages[1].raises \/ pages[1].text = <<>>
       THEN /\ exit_code' = 1
            /\ pc' = "done"
            /\ UNCHANGED rows
       ELSE /\ rows' = S_OcrItems(pages[1].text)
            /\ pc' = "h_start"
            /\ UNCHANGED exit_code
    /\ UNCHANGED <<script, idx, uses_french_format, header_candidates, data_candidates,
                   current_region, current_section, headers, temp_values, parsed_data,
                   best_header, columns, records, pages, method, written>>
    /\ UNCHANGED batch_vars
    /\ warning' = IF exit_code' = 1 THEN "Error processing PDF" ELSE warning
    /\ UNCHANGED config_vars

\* app.py lines 199-213: the hierarchical rows are the result if there are any
A_Frame ==
    /\ script = "app"
    /\ pc = "h_frame"
    /\ IF NoDataRows(parsed_data)
       THEN /\ pc' = "a_universal"
            /\ UNCHANGED <<headers, columns, records, method, written, exit_code>>
       ELSE /\ headers' = hierarchical_headers
            /\ columns' = hierarchical_headers
            /\ records' = FFill(FFill(parsed_data, 1, 1), 2, 1)
            /\ method' = "Hierarchical Parser"
            /\ written' = TRUE
            /\ exit_code' = 0
            /\ pc' = "done"
    /\ UNCHANGED <<script, rows, idx, uses_french_format, header_candidates,
                   data_candidates, current_region, current_section, temp_values,
                   parsed_data, best_header, pages, attempts>>
    /\ UNCHANGED batch_vars
    /\ UNCHANGED warning
    /\ UNCHANGED config_vars

\* app.py lines 218-221: try_pdfplumber, then smart_parse_table on its rows
A_TryUniversal ==
    /\ script = "app"
    /\ pc = "a_universal"
    /\ attempts' = Append(attempts, "Universal Parser")
    /\ rows' = try_pdfplumber(pages).rows
    /\ pc' = IF NativeIsEnough(try_pdfplumber(pages)) THEN "detect" ELSE "a_ai"
    /\ idx' = 1
    /\ current_region' = None
    /\ current_section' = None
    /\ UNCHANGED <<script, uses_french_format, header_candidates, data_candidates,
                   headers, temp_values, parsed_data, best_header, columns, records,
                   exit_code, pages, method, written>>
    /\ UNCHANGED batch_vars
    /\ UNCHANGED warning
    /\ UNCHANGED config_vars

\* app.py lines 223-239: the universal rows are the result if there are any
A_Assemble ==
    /\ script = "app"
    /\ pc = "assemble"
    /\ IF NoDataRows(parsed_data)
       THEN /\ pc' = "a_ai"
            /\ UNCHANGED <<headers, columns, records, method, written, exit_code>>
       ELSE /\ headers' = A_ExtendHeaders(headers, MaxLen(parsed_data))
            /\ columns' = Prefix(headers', MaxLen(parsed_data))
            /\ records' = DropDuplicates(PadRows(parsed_data))
            /\ method' = "Universal Parser"
            /\ written' = TRUE
            /\ exit_code' = 0
            /\ pc' = "done"
    /\ UNCHANGED <<script, rows, idx, uses_french_format, header_candidates,
                   data_candidates, current_region, current_section, temp_values,
                   parsed_data, best_header, pages, attempts>>
    /\ UNCHANGED batch_vars
    /\ UNCHANGED warning
    /\ UNCHANGED config_vars

\* app.py lines 242-280: PaddleOCR if use_ai_fallback, one column of its
\* texts if there are any, else the error of line 280
A_AiFallback ==
    /\ script = "app"
    /\ pc = "a_ai"
    /\ pc' = "done"
    /\ \E use_ai_fallback \in BOOLEAN : \E result \in AiResults :
          IF use_ai_fallback /\ ~result.raises /\ result.lines # <<>>
          THEN /\ attempts' = Append(attempts, "AI (PaddleOCR)")
               /\ rows' = [k \in 1..Len(result.lines) |-> <<result.lines[k]>>]
               /\ columns' = <<"Extracted_Text">>
               /\ records' = [k \in 1..Len(result.lines) |-> <<TextCell(result.lines[k])>>]
               /\ method' = "AI (PaddleOCR)"
               /\ written' = TRUE
               /\ exit_code' = 0
          ELSE /\ attempts' = IF use_ai_fallback THEN Append(attempts, "AI (PaddleOCR)")
                              ELSE attempts
               /\ exit_code' = 1
               /\ UNCHANGED <<rows, columns, records, method, written>>
    /\ UNCHANGED <<script, idx, uses_french_format, header_candidates,
                   data_candidates, current_region, current_section, headers,
                   temp_values, parsed_data, best_header, pages>>
    /\ UNCHANGED batch_vars
    /\ warning' = IF exit_code' = 1 THEN "Failed to extract data from PDF with all available methods" ELSE warning
    /\ UNCHANGED config_vars

NextApp ==
    \/ A_ReadFirstPage
    \/ A_Frame
    \/ A_TryUniversal
    \/ A_Assemble
    \/ A_AiFallback

----------------------------------------------------------------------------
(* extract_generic_smart.py: main with its three extraction methods and    *)
(* detect_table_structure.  The rows of all tables lie in rows.            *)

\* extract_with_pdfplumber, lines 87-105: the tables of one page, else its
\* text as one table of one column
G_PageRows(page) ==
    IF page.tables # <<>>
    THEN LET kept == SelectSeq(page.tables,
                         LAMBDA row : \E k \in 1..Len(row) : Strip(row[k]) # "")
         IN  [k \in 1..Len(kept) |-> StripCells(kept[k])]
    ELSE S_OcrItems(page.text)

\* len(re.findall(class{least,}, s)): the maximal runs of at least least characters
RECURSIVE CountRuns(_, _, _, _)
CountRuns(s, i, class, least) ==
    IF i > Len(s) THEN 0
    ELSE IF CharAt(s, i) \notin class THEN CountRuns(s, i + 1, class, least)
    ELSE (IF RunEnd(s, i, class) - i + 1 >= least THEN 1 ELSE 0)
            + CountRuns(s, RunEnd(s, i, class) + 1, class, least)

generic_header_keywords ==
    <<"TOTAL", "SEX", "GENDER", "AGE", "POPULATION", "MALE", "FEMALE",
      "VOTERS", "DISTRICT", "REGION", "AREA", "COUNT", "NUMBER">>

\* line 240
G_RowText(row) == Join(SelectSeq(row, LAMBDA cell : cell # ""), " ")

\* lines 243-255: "header", "data" or "other"
G_RowKind(row) ==
    LET row_text       == G_RowText(row)
        numbers_in_row == CountRuns(row_text, 1, DigitSet, 2)
        words_in_row   == CountRuns(row_text, 1, UpperSet \cup LowerSet, 3)
    IN  IF row = <<>> THEN "other"
        ELSE IF (words_in_row > numbers_in_row /\ words_in_row > 0)
                   \/ AnyKeyword(Upper(row_text), generic_header_keywords)
        THEN "header"
        ELSE IF numbers_in_row >= 2 THEN "data"
        ELSE "other"

\* re.findall(r'\d[\d,]*', cell_str) from i on, each number without its commas
RECURSIVE G_Numbers(_, _)
G_Numbers(cell_str, i) ==
    IF i > Len(cell_str) THEN <<>>
    ELSE IF ~IsDigit(CharAt(cell_str, i)) THEN G_Numbers(cell_str, i + 1)
    ELSE LET e == RunEnd(cell_str, i, DigitSet \cup {","})
         IN  <<IntCell(StrToInt(ReplaceChar(SubSeq(cell_str, i, e), ",", "")))>>
                \o G_Numbers(cell_str, e + 1)

\* lines 271-291: the values of one cell
G_CellValues(cell) ==
    IF cell = "" THEN <<NullCell>>
    ELSE IF G_Numbers(Strip(cell), 1) # <<>> THEN G_Numbers(Strip(cell), 1)
    ELSE <<TextCell(Strip(cell))>>

G_ParsedRow(row) == Concat([k \in 1..Len(row) |-> G_CellValues(row[k])])

\* lines 258-263
G_Headers(rs) ==
    LET potential_headers == SelectSeq(rs, LAMBDA row : G_RowKind(row) = "header")
    IN  IF potential_headers # <<>> THEN potential_headers[1]
        ELSE [k \in 1..MaxLen(rs) |-> "Column_" \o IntToStr(k)]

\* lines 266-294
G_ParsedData(rs) ==
    LET data_rows == SelectSeq(rs, LAMBDA row : G_RowKind(row) = "data")
        parsed    == [k \in 1..Len(data_rows) |-> G_ParsedRow(data_rows[k])]
    IN  SelectSeq(parsed, LAMBDA r : \E k \in 1..Len(r) : r[k] # NullCell)

\* main, lines 340-347: pdfplumber; an exception and no table lead to PaddleOCR
G_TryPdfplumber ==
    /\ script = "generic"
    /\ pc = "g_native"
    /\ attempts' = Append(attempts, "pdfplumber")
    /\ IF AnyRaises(pages)
       THEN /\ pc' = "g_paddle"
            /\ UNCHANGED <<rows, method>>
       ELSE /\ rows' = Concat([k \in 1..Len(pages) |-> G_PageRows(pages[k])])
            /\ method' = "pdfplumber"
            /\ pc' = IF rows' = <<>> THEN "g_paddle" ELSE "g_structure"
    /\ UNCHANGED <<script, idx, uses_french_format, header_candidates, data_candidates,
                   current_region, current_section, headers, temp_values, parsed_data,
                   best_header, columns, records, exit_code, pages, written>>
    /\ UNCHANGED batch_vars
    /\ UNCHANGED warning
    /\ UNCHANGED config_vars

\* main, lines 354-357: PaddleOCR; only an exception leads to Tesseract
G_TryPaddleOcr ==
    /\ script = "generic"
    /\ pc = "g_paddle"
    /\ attempts' = Append(attempts, "PaddleOCR")
    /\ \E result \in OcrResults :
          IF result.raises
          THEN /\ pc' = "g_tesseract"
               /\ UNCHANGED <<rows, method>>
          ELSE /\ rows' = [k \in 1..Len(result.lines) |-> <<result.lines[k]>>]
               /\ method' = "PaddleOCR"
               /\ pc' = "g_structure"
    /\ UNCHANGED <<script, idx, uses_french_format, header_candidates, data_candidates,
                   current_region, current_section, headers, temp_values, parsed_data,
                   best_header, columns, records, exit_code, pages, written>>
    /\ UNCHANGED batch_vars
    /\ UNCHANGED warning
    /\ UNCHANGED config_vars

\* main, lines 359-366: Tesseract; its exception ends the script with a
\* traceback and exit status 1
G_TryTesseract ==
    /\ script = "generic"
    /\ pc = "g_tesseract"
    /\ attempts' = Append(attempts, "Tesseract")
    /\ \E result \in OcrResults :
          IF result.raises
          THEN /\ exit_code' = 1
               /\ pc' = "done"
               /\ UNCHANGED <<rows, method>>
          ELSE /\ rows' = S_OcrItems(result.lines)
               /\ method' = "Tesseract"
               /\ pc' = "g_structure"
               /\ UNCHANGED exit_code
    /\ UNCHANGED <<script, idx, uses_french_format, header_candidates, data_candidates,
                   current_region, current_section, headers, temp_values, parsed_data,
                   best_header, columns, records, pages, written>>
    /\ UNCHANGED batch_vars
    /\ warning' = IF exit_code' = 1 THEN "Traceback" ELSE warning
    /\ UNCHANGED config_vars

\* main, lines 370-398: detect_table_structure, then exit status 1 without
\* data rows, else the padded rows without duplicates
G_Structure ==
    /\ script = "generic"
    /\ pc = "g_structure"
    /\ pc' = "done"
    /\ parsed_data' = G_ParsedData(rows)
    /\ IF NoDataRows(parsed_data')
       THEN /\ exit_code' = 1
            /\ headers' = G_Headers(rows)
            /\ UNCHANGED <<columns, records, written>>
       ELSE /\ headers' = A_ExtendHeaders(G_Headers(rows), MaxLen(parsed_data'))
            /\ columns' = Prefix(headers', MaxLen(parsed_data'))
            /\ records' = DropDuplicates(PadRows(parsed_data'))
            /\ written' = TRUE
            /\ exit_code' = 0
    /\ UNCHANGED <<script, rows, idx, uses_french_format, header_candidates, data_candidates,
                   current_region, current_section, temp_values, best_header, pages,
                   attempts, method>>
    /\ UNCHANGED batch_vars
    /\ warning' = IF exit_code' = 1 THEN "WARNING: No data rows found!" ELSE warning
    /\ UNCHANGED config_vars

NextGeneric ==
    \/ G_TryPdfplumber
    \/ G_TryPaddleOcr
    \/ G_TryTesseract
    \/ G_Structure

----------------------------------------------------------------------------
(* The package pdf_data_extractor: the batch pipeline of cli.py main with  *)
(* PDFConverter, OCREngine and DataParser.  A PDF file is a record of its  *)
(* name, its suffix, whether pdf2image can read it and what is written on  *)
(* its pages; a page is a record of whether cv2 can read its image and of  *)
(* its text lines.                                                         *)

PdfFile(name, suffix, readable, page_seq) ==
    [name |-> name, suffix |-> suffix, readable |-> readable, pages |-> page_seq]

PageImage(readable, lines) == [readable |-> readable, lines |-> lines]

\* downloader.py lines 115-135: the existing files with the suffix .pdf
download_local_files(file_paths) ==
    SelectSeq(file_paths, LAMBDA f : f.suffix = ".pdf")

\* converter.py lines 58-99; the image of page i of x.pdf is x_page_i
convert_pdf(pdf) ==
    IF pdf.suffix # ".pdf" \/ ~pdf.readable
    THEN [raises |-> TRUE, image_paths |-> <<>>]
    ELSE [raises |-> FALSE,
          image_paths |-> [i \in 1..Len(pdf.pages) |->
                              [path     |-> <<pdf.name, i - 1>>,
                               readable |-> pdf.pages[i].readable,
                               lines    |-> pdf.pages[i].lines]]]

\* a variant without the try of lines 44-51: the first failure ends the loop
RECURSIVE convert_pdfs_Abort(_)
convert_pdfs_Abort(pdf_paths) ==
    IF pdf_paths = <<>> THEN <<>>
    ELSE IF convert_pdf(Head(pdf_paths)).raises THEN <<>>
    ELSE <<convert_pdf(Head(pdf_paths)).image_paths>> \o convert_pdfs_Abort(Tail(pdf_paths))

\* converter.py lines 30-56: the image paths of every PDF, none for a PDF
\* whose conversion raised
convert_pdfs(pdf_paths) ==
    [k \in 1..Len(pdf_paths) |->
        IF convert_pdf(pdf_paths[k]).raises THEN <<>>
        ELSE convert_pdf(pdf_paths[k]).image_paths]

\* ocr_engine.py lines 61-93
process_image(image) ==
    IF ~image.readable
    THEN [raises |-> TRUE, lines |-> <<>>]
    ELSE LET kept == SelectSeq(image.lines, LAMBDA line : Strip(line) # "")
         IN  [raises |-> FALSE, lines |-> [k \in 1..Len(kept) |-> Strip(kept[k])]]

\* ocr_engine.py lines 35-59: a result for every image, with the key error
\* for an image whose processing raised
process_images(image_paths) ==
    [k \in 1..Len(image_paths) |->
        [image_path |-> image_paths[k].path,
         lines      |-> process_image(image_paths[k]).lines,
         error      |-> process_image(image_paths[k]).raises]]

\* config.py line 40 and line 49
census_keywords ==
    <<"FR", "DISTRICT", "TEHSIL", "DIVISION", "AGENCY", "TALUKA", "MUSAKHEL",
      "DE-EXCLUDED", "F.R">>

parsing_filters == {"OVERALL", "RURAL", "URBAN"}

\* config.py lines 43-48: the keys in their order; is_list is FALSE for a
\* value that a configuration file gives as a number
Mapping(key, names) == [key |-> key, columns |-> names, is_list |-> TRUE]

DefaultMappings ==
    <<Mapping("census_religion_7",
              <<"SEX", "TOTAL", "MUSLIM", "CHRISTIAN", "HINDU", "QADIANI/AHMADI",
                "CASTE/SCHEDULED">>),
      Mapping("census_religion_8",
              <<"SEX", "TOTAL", "MUSLIM", "CHRISTIAN", "HINDU", "QADIANI/AHMADI",
                "CASTE/SCHEDULED", "OTHERS">>),
      Mapping("census_religion_9",
              <<"SEX", "TOTAL", "MUSLIM", "CHRISTIAN", "HINDU", "QADIANI/AHMADI",
                "CASTE/SCHEDULED", "OTHERS", "EXTRACOL">>),
      Mapping("election_standard",
              <<"POLLING_STATION", "REGISTERED_VOTERS", "VOTES_CAST", "VALID_VOTES",
                "REJECTED_VOTES">>)>>

\* parser.py lines 92-120
P_FilterLines(lines) ==
    LET stripped == [k \in 1..Len(lines) |-> Strip(lines[k])]
    IN  SelectSeq(stripped,
                  LAMBDA line : /\ line # ""
                                /\ line \notin parsing_filters
                                /\ ~(Len(line) = 1 /\ IsAlpha(line)))

P_HasKeyword(line) == AnyKeyword(Upper(line), census_keywords)

\* parser.py lines 122-136
P_TrimToKeywords(lines) ==
    LET hits == {i \in 1..Len(lines) : P_HasKeyword(lines[i])}
    IN  IF hits = {} THEN lines ELSE SubSeq(lines, SetMin(hits), Len(lines))

\* re.sub(r"( SEXE.|SEXE.)", "", data_line) from i on
RECURSIVE RemoveSexe(_, _)
RemoveSexe(data_line, i) ==
    IF i > Len(data_line) THEN ""
    ELSE IF i + 5 <= Len(data_line) /\ SubSeq(data_line, i, i + 4) = " SEXE"
    THEN RemoveSexe(data_line, i + 6)
    ELSE IF i + 4 <= Len(data_line) /\ SubSeq(data_line, i, i + 3) = "SEXE"
    THEN RemoveSexe(data_line, i + 5)
    ELSE CharAt(data_line, i) \o RemoveSexe(data_line, i + 1)

\* parser.py lines 292-297: the loop over the mappings from entry k on
RECURSIVE P_ByColumnCount(_, _, _)
P_ByColumnCount(mappings, column_count, k) ==
    IF k > Len(mappings) THEN [kind |-> "None", names |-> <<>>]
    ELSE IF ~mappings[k].is_list THEN [kind |-> "TypeError", names |-> <<>>]
    ELSE IF Len(mappings[k].columns) = column_count
    THEN [kind |-> "list", names |-> mappings[k].columns]
    ELSE P_ByColumnCount(mappings, column_count, k + 1)

P_Lookup(mappings, key) ==
    LET hits == {k \in 1..Len(mappings) : mappings[k].key = key}
    IN  IF hits = {} THEN [found |-> FALSE, kind |-> "None", names |-> <<>>]
        ELSE LET m == mappings[SetMin(hits)]
             IN  [found |-> TRUE,
                  kind  |-> IF m.is_list THEN "list" ELSE "int",
                  names |-> m.columns]

\* parser.py lines 272-297, with the prefix census
P_GetColumnNames(mappings, column_count) ==
    LET exact    == P_Lookup(mappings, "census_religion_" \o IntToStr(column_count))
        standard == P_Lookup(mappings, "census_standard")
    IN  IF exact.found THEN [kind |-> exact.kind, names |-> exact.names]
        ELSE IF standard.found THEN [kind |-> standard.kind, names |-> standard.names]
        ELSE P_ByColumnCount(mappings, column_count, 1)

\* parser.py lines 171-201: the row of a region and its data line; skipped
\* without columns or column names, TypeError for column names that are a number
P_Row(mappings, region, data_line, image_path) ==
    LET cols  == SplitWs(RemoveSexe(data_line, 1))
        names == P_GetColumnNames(mappings, Len(cols))
    IN  IF cols = <<>> THEN [kind |-> "skipped"]
        ELSE IF names.kind \in {"TypeError", "int"} THEN [kind |-> "TypeError"]
        ELSE IF names.names = <<>> THEN [kind |-> "skipped"]
        ELSE [kind         |-> "row",
              cells        |-> [i \in 1..Len(names.names) |->
                                  <<names.names[i], IF i <= Len(cols) THEN cols[i] ELSE "">>],
              REGION       |-> region,
              SOURCE_IMAGE |-> image_path]

\* parser.py lines 138-203
P_ParseCensusData(mappings, lines, image_path) ==
    LET matching_lines ==
            SelectSeq(lines, LAMBDA line : Contains(Upper(line), "ALL") \/ P_HasKeyword(line))
        at == SelectSeq([i \in 1..Len(matching_lines) |-> i],
                        LAMBDA i : P_HasKeyword(matching_lines[i]))
        made == [k \in 1..Len(at) |->
                    P_Row(mappings, matching_lines[at[k]],
                          IF at[k] + 1 <= Len(matching_lines)
                          THEN matching_lines[at[k] + 1] ELSE "",
                          image_path)]
    IN  [raises |-> \E k \in 1..Len(made) : made[k].kind = "TypeError",
         rows   |-> SelectSeq(made, LAMBDA r : r.kind = "row")]

\* parser.py lines 63-90, with the data format census
parse_single_result(mappings, ocr_result, image_path) ==
    IF ocr_result.lines = <<>> THEN [raises |-> FALSE, rows |-> <<>>]
    ELSE P_ParseCensusData(mappings,
                           P_TrimToKeywords(P_FilterLines(ocr_result.lines)),
                           image_path)

\* parser.py lines 41-51: the rows of one OCR result
P_ResultRows(mappings, result) ==
    IF result.error THEN <<>>
    ELSE IF parse_single_result(mappings, result, result.image_path).raises THEN <<>>
    ELSE parse_single_result(mappings, result, result.image_path).rows

\* parser.py lines 28-61: the rows of the DataFrame, none for an empty one
parse_ocr_results(mappings, results) ==
    Concat([k \in 1..Len(results) |-> P_ResultRows(mappings, results[k])])

\* cli.py lines 209-214: --input, the valid PDF files among the given ones
C_Input ==
    /\ script = "cli"
    /\ pc = "c_input"
    /\ pdf_files' = download_local_files(pdf_files)
    /\ pc' = "c_convert"
    /\ UNCHANGED <<script, idx, exit_code, image_files, ocr_results, data, column_mappings,
                   server, district_range, downloaded_files, max_retries, attempt,
                   requests, sleeps, returned>>
    /\ UNCHANGED parser_vars
    /\ UNCHANGED warning
    /\ UNCHANGED config_vars

\* cli.py lines 234-248: the images of all PDF files; without images the
\* run ends with exit status 1
C_Convert ==
    /\ script = "cli"
    /\ pc = "c_convert"
    /\ image_files' = IF pdf_files # <<>> THEN Concat(convert_pdfs(pdf_files)) ELSE image_files
    /\ IF image_files' = <<>>
       THEN pc' = "done" /\ exit_code' = 1
       ELSE pc' = "c_ocr" /\ UNCHANGED exit_code
    /\ UNCHANGED <<script, idx, pdf_files, ocr_results, data, column_mappings, server,
                   district_range, downloaded_files, max_retries, attempt, requests,
                   sleeps, returned>>
    /\ UNCHANGED parser_vars
    /\ warning' = IF exit_code' = 1 THEN "No images to process" ELSE warning
    /\ UNCHANGED config_vars

\* cli.py lines 250-252
C_Ocr ==
    /\ script = "cli"
    /\ pc = "c_ocr"
    /\ ocr_results' = process_images(image_files)
    /\ pc' = "c_parse"
    /\ UNCHANGED <<script, idx, exit_code, pdf_files, image_files, data, column_mappings,
                   server, district_range, downloaded_files, max_retries, attempt,
                   requests, sleeps, returned>>
    /\ UNCHANGED parser_vars
    /\ UNCHANGED warning
    /\ UNCHANGED config_vars

\* cli.py lines 254-260: without a row the run ends with exit status 1
C_Parse ==
    /\ script = "cli"
    /\ pc = "c_parse"
    /\ data' = parse_ocr_results(column_mappings, ocr_results)
    /\ IF data' = <<>>
       THEN pc' = "done" /\ exit_code' = 1
       ELSE pc' = "c_export" /\ UNCHANGED exit_code
    /\ UNCHANGED <<script, idx, pdf_files, image_files, ocr_results, column_mappings,
                   server, district_range, downloaded_files, max_retries, attempt,
                   requests, sleeps, returned>>
    /\ UNCHANGED parser_vars
    /\ warning' = IF exit_code' = 1 THEN "No data extracted" ELSE warning
    /\ UNCHANGED config_vars

\* cli.py lines 262-281: the export and the summary
C_Export ==
    /\ script = "cli"
    /\ pc = "c_export"
    /\ written' = TRUE
    /\ exit_code' = 0
    /\ pc' = "done"
    /\ UNCHANGED <<script, idx, rows, uses_french_format, header_candidates,
                   data_candidates, current_region, current_section, headers, temp_values,
                   parsed_data, best_header, columns, records, pages, attempts, method>>
    /\ UNCHANGED batch_vars
    /\ UNCHANGED warning
    /\ UNCHANGED config_vars

NextBatch ==
    \/ C_Input
    \/ C_Convert
    \/ C_Ocr
    \/ C_Parse
    \/ C_Export

----------------------------------------------------------------------------
(* downloader.py: PDFDownloader.download_file, called by itself, and       *)
(* download_from_url_pattern as cli.py main calls it for --download.  The  *)
(* server gives, for every URL, its answers to the successive requests:    *)
(*   "200"            the status 200 and the whole body                    *)
(*   "200_cut"        the status 200 and a connection that breaks while    *)
(*                    the body is read (a RequestException of iter_content)*)
(*   "200_unwritable" the status 200 for a file that open() cannot create  *)
(*   "404", "500"     that status                                          *)
(*   "timeout"        a RequestException of requests.get                   *)
(* A URL whose answers are used up goes on giving its last answer.         *)

AnswerAt(answers, n) == answers[IF n < Len(answers) THEN n ELSE Len(answers)]

\* lines 87-108: what one request decides
AnswerKind(answer) ==
    IF answer = "200" THEN "True"
    ELSE IF answer = "404" THEN "False"
    ELSE IF answer = "200_unwritable" THEN "OSError"
    ELSE "retry"

\* line 107
IsRequestException(answer) == answer \in {"timeout", "200_cut"}

\* a variant that sleeps behind the last attempt as well
NeedsBackoff_Always(att, retries) == TRUE

\* line 110
NeedsBackoff(att, retries) == att < retries - 1

\* lines 107-111: the sleeps behind the answer to attempt att
Backoff(answer, att, retries) ==
    IF IsRequestException(answer) /\ NeedsBackoff(att, retries) THEN <<2 ^ att>> ELSE <<>>

\* lines 83-113 from attempt att on: the outcome, the sleeps and the number
\* of requests
RECURSIVE download_file(_, _, _)
download_file(answers, retries, att) ==
    IF att >= retries THEN [returned |-> "False", sleeps |-> <<>>, requests |-> 0]
    ELSE LET answer == AnswerAt(answers, att + 1)
             rest   == download_file(answers, retries, att + 1)
         IN  IF AnswerKind(answer) # "retry"
             THEN [returned |-> AnswerKind(answer), sleeps |-> <<>>, requests |-> 1]
             ELSE [returned |-> rest.returned,
                   sleeps   |-> Backoff(answer, att, retries) \o rest.sleeps,
                   requests |-> rest.requests + 1]

\* line 69: the parameters behind self; max_retries: 3 is an annotation, so
\* none of them has a default value
download_file_parameters ==
    <<[name |-> "url", has_default |-> FALSE],
      [name |-> "output_path", has_default |-> FALSE],
      [name |-> "max_retries", has_default |-> FALSE]>>

\* the binding of positional arguments to parameters: TypeError when a
\* parameter without default value gets no argument
Bind(parameters, arguments) ==
    [raises |-> \E k \in 1..Len(parameters) :
                   k > Len(arguments) /\ ~parameters[k].has_default,
     values |-> arguments]

\* line 41: "%.3d" % i
DistrictCode(i) ==
    IF i < 10 THEN "00" \o IntToStr(i)
    ELSE IF i < 100 THEN "0" \o IntToStr(i)
    ELSE IntToStr(i)

\* lines 41-49 with the default file_pattern and data_type: the output path
\* of the district at position k of the range
OutputPath(k) == DistrictCode(district_range[1] + k - 1) \o "09.pdf"

DistrictCount == district_range[2] - district_range[1] + 1

download_delay == 3

\* download_file, lines 83-111: one attempt
F_Attempt ==
    /\ script = "download_file"
    /\ pc = "f_loop"
    /\ attempt < max_retries
    /\ LET answer == AnswerAt(server[1], attempt + 1)
       IN  /\ requests' = Append(requests, [attempt |-> attempt, answer |-> answer])
           /\ IF AnswerKind(answer) # "retry"
              THEN /\ returned' = AnswerKind(answer)
                   /\ pc' = "done"
                   /\ UNCHANGED <<attempt, sleeps>>
              ELSE /\ sleeps' = sleeps \o Backoff(answer, attempt, max_retries)
                   /\ attempt' = attempt + 1
                   /\ UNCHANGED <<returned, pc>>
    /\ UNCHANGED <<script, idx, exit_code, pdf_files, image_files, ocr_results, data,
                   column_mappings, server, district_range, downloaded_files, max_retries>>
    /\ UNCHANGED parser_vars
    /\ UNCHANGED warning
    /\ UNCHANGED config_vars

\* download_file, line 113: the attempts are used up
F_Exhausted ==
    /\ script = "download_file"
    /\ pc = "f_loop"
    /\ attempt >= max_retries
    /\ returned' = "False"
    /\ pc' = "done"
    /\ UNCHANGED <<script, idx, exit_code, pdf_files, image_files, ocr_results, data,
                   column_mappings, server, district_range, downloaded_files, max_retries,
                   attempt, requests, sleeps>>
    /\ UNCHANGED parser_vars
    /\ UNCHANGED warning
    /\ UNCHANGED config_vars

\* download_from_url_pattern, lines 46-64: one district.  The call of line
\* 52 gives two arguments; its TypeError is caught by line 62
D_District ==
    /\ script = "cli"
    /\ pc = "c_download"
    /\ idx <= DistrictCount
    /\ LET call == Bind(download_file_parameters, <<"url", "output_path">>)
           run  == download_file(server[idx], call.values[3], 0)
       IN  IF call.raises
           THEN /\ returned' = "TypeError"
                /\ UNCHANGED <<downloaded_files, sleeps, requests>>
           ELSE /\ returned' = run.returned
                /\ requests' = requests \o [k \in 1..run.requests |->
                                   [attempt |-> k - 1, answer |-> AnswerAt(server[idx], k)]]
                /\ downloaded_files' =
                      IF run.returned = "True" THEN Append(downloaded_files, OutputPath(idx))
                      ELSE downloaded_files
                /\ sleeps' =
                      IF run.returned = "OSError" THEN sleeps \o run.sleeps
                      ELSE sleeps \o run.sleeps \o <<download_delay>>
    /\ idx' = idx + 1
    /\ UNCHANGED <<script, pc, exit_code, pdf_files, image_files, ocr_results, data,
                   column_mappings, server, district_range, max_retries, attempt>>
    /\ UNCHANGED parser_vars
    /\ UNCHANGED warning
    /\ UNCHANGED config_vars

\* download_from_url_pattern, lines 66-67, and cli.py line 207: the
\* downloaded files are the PDF files of the batch
D_Return ==
    /\ script = "cli"
    /\ pc = "c_download"
    /\ idx > DistrictCount
    /\ pdf_files' = [k \in 1..Len(downloaded_files) |->
                        PdfFile(downloaded_files[k], ".pdf", TRUE,
                                <<PageImage(TRUE, <<"DISTRICT A", "ALL SEXES 10 20 30 40 50 60">>)>>)]
    /\ pc' = "c_convert"
    /\ UNCHANGED <<script, idx, exit_code, image_files, ocr_results, data, column_mappings,
                   server, district_range, downloaded_files, max_retries, attempt,
                   requests, sleeps, returned>>
    /\ UNCHANGED parser_vars
    /\ UNCHANGED warning
    /\ UNCHANGED config_vars

NextDownload ==
    \/ F_Attempt
    \/ F_Exhausted
    \/ D_District
    \/ D_Return
    \/ C_Convert

----------------------------------------------------------------------------
(* extract_multi_page_pdf.py: the parsing of main, page by page.  The text *)
(* of a page holds the lines that OCR has recognised on it.                *)

multi_region_keywords == <<"DISTRICT", "SUB-DIVISION", "CONSTITUENCY", "DIVISION">>

\* line 141
M_IsRegion(line) == AnyKeyword(Upper(line), multi_region_keywords)

\* lines 176-178
M_Clean(part) ==
    ReplaceChar(ReplaceChar(ReplaceChar(ReplaceChar(ReplaceChar(ReplaceChar(
    ReplaceChar(part, ",", ""), "O", "0"), "o", "0"), "Z", "2"), "z", "2"), "S", "5"), "s", "5")

\* lines 174-183: a hyphen is None, digits are an integer, anything else is left out
RECURSIVE M_Numbers(_)
M_Numbers(parts) ==
    IF parts = <<>> THEN <<>>
    ELSE LET clean == M_Clean(Head(parts))
         IN  IF clean = "-" THEN <<NullCell>> \o M_Numbers(Tail(parts))
             ELSE IF IsDigitStr(clean) THEN <<IntCell(StrToInt(clean))>> \o M_Numbers(Tail(parts))
             ELSE M_Numbers(Tail(parts))

\* lines 186-199
M_Row(page_num, line, numbers, region, section) ==
    <<IntCell(page_num), TextCell(OrEmpty(region)), TextCell(OrEmpty(section)),
      TextCell(S_Sex(line))>> \o Prefix(numbers, 7)

\* lines 135-136: the context at the top of a page
M_PageContext(region, section) == [region |-> None, section |-> None]

\* lines 138-199, the loop over the lines of one page: the rows of the page
\* and the context behind its last line
RECURSIVE M_ParseLines(_, _, _, _, _)
M_ParseLines(page_num, lines, region, section, found) ==
    IF lines = <<>> THEN [rows |-> found, region |-> region, section |-> section]
    ELSE LET line    == Head(lines)
             numbers == M_Numbers(SplitWs(S_DataPart(line)))
         IN  IF M_IsRegion(line)
             THEN M_ParseLines(page_num, Tail(lines), Some(line), section, found)
             ELSE IF S_IsSection(line)
             THEN M_ParseLines(page_num, Tail(lines), region, Some(Upper(line)), found)
             ELSE IF S_IsData(line) /\ Len(numbers) >= 7
             THEN M_ParseLines(page_num, Tail(lines), region, section,
                               Append(found, M_Row(page_num, line, numbers, region, section)))
             ELSE M_ParseLines(page_num, Tail(lines), region, section, found)

multi_headers ==
    <<"PAGE", "REGION", "SECTION", "SEX", "TOTAL", "MUSLIM", "CHRISTIAN", "HINDU",
      "QADIANI_AHMADI", "SCHEDULED_CASTES", "OTHERS">>

\* line 212: r1 before r2 by PAGE, then REGION, SECTION and SEX
M_KeyLess(r1, r2) ==
    \/ r1[1].n < r2[1].n
    \/ r1[1].n = r2[1].n /\ KeyLess(Tail(r1), Tail(r2))

RECURSIVE M_SortValues(_, _, _)
M_SortValues(rs, k, sorted) ==
    IF k > Len(rs) THEN sorted
    ELSE LET behind == {j \in 1..Len(sorted) : M_KeyLess(rs[k], sorted[j])}
             at     == IF behind = {} THEN Len(sorted) + 1 ELSE SetMin(behind)
         IN  M_SortValues(rs, k + 1,
                 SubSeq(sorted, 1, at - 1) \o <<rs[k]>> \o SubSeq(sorted, at, Len(sorted)))

\* one turn of the loop of lines 131-199: the lines of one page
M_ParsePage ==
    /\ script = "multi_page"
    /\ pc = "m_page"
    /\ idx <= Len(pages)
    /\ LET context == M_PageContext(current_region, current_section)
           parsed  == M_ParseLines(idx, pages[idx].text, context.region, context.section, <<>>)
       IN  /\ parsed_data' = parsed_data \o parsed.rows
           /\ current_region' = parsed.region
           /\ current_section' = parsed.section
    /\ idx' = idx + 1
    /\ UNCHANGED <<script, rows, pc, uses_french_format, header_candidates, data_candidates,
                   headers, temp_values, best_header, columns, records, exit_code>>
    /\ UNCHANGED <<pages, attempts, method, written>>
    /\ UNCHANGED batch_vars
    /\ UNCHANGED warning
    /\ UNCHANGED config_vars

\* main, lines 203-215: no row is exit status 1, else drop_duplicates and sort_values
M_Frame ==
    /\ script = "multi_page"
    /\ pc = "m_page"
    /\ idx > Len(pages)
    /\ pc' = "done"
    /\ IF NoDataRows(parsed_data)
       THEN /\ exit_code' = 1
            /\ warning' = "WARNING: No data extracted!"
            /\ UNCHANGED <<headers, columns, records, written>>
       ELSE /\ headers' = multi_headers
            /\ columns' = multi_headers
            /\ records' = M_SortValues(DropDuplicates(parsed_data), 1, <<>>)
            /\ written' = TRUE
            /\ exit_code' = 0
            /\ UNCHANGED warning
    /\ UNCHANGED <<script, rows, idx, uses_french_format, header_candidates, data_candidates,
                   current_region, current_section, temp_values, parsed_data, best_header>>
    /\ UNCHANGED <<pages, attempts, method>>
    /\ UNCHANGED batch_vars
    /\ UNCHANGED config_vars

NextMultiPage == M_ParsePage \/ M_Frame

----------------------------------------------------------------------------
(* config.py: the Config class *)

\* config.py lines 12-61, the sections that cli.py sets: the nested
\* dictionaries of the class attribute, by the key that holds them
DEFAULT_CONFIG ==
    [logging |-> [level |-> "INFO", console |-> "True"],
     export  |-> [format |-> "excel", output_dir |-> "./output"]]

\* what a key of a config dictionary holds: one of the nested dictionaries
\* of the class, a dictionary of the object's own, or a plain value
Shared(name) == [kind |-> "shared", name |-> name, dict |-> <<>>, value |-> ""]

Own(d) == [kind |-> "own", name |-> "", dict |-> d, value |-> ""]

Scalar(v) == [kind |-> "value", name |-> "", dict |-> <<>>, value |-> v]

\* d[k] = v
Put(d, k, v) == [x \in (DOMAIN d) \cup {k} |-> IF x = k THEN v ELSE d[x]]

\* a variant that copies the nested dictionaries too
ShallowCopy_Deep(dc) == [name \in DOMAIN dc |-> Own(dc[name])]

\* line 69, self.DEFAULT_CONFIG.copy(): a new dictionary whose values are
\* the nested dictionaries of the class themselves
ShallowCopy(dc) == [name \in DOMAIN dc |-> Shared(name)]

\* the dictionary behind an entry, as the class holds it
Resolved(dc, entry) ==
    IF entry.kind = "shared" THEN dc[entry.name]
    ELSE IF entry.kind = "own" THEN entry.dict
    ELSE entry.value

\* lines 99-115, get(*keys) with one or two keys; None is "None"
get(dc, config, keys) ==
    IF keys[1] \notin DOMAIN config THEN "None"
    ELSE LET value == Resolved(dc, config[keys[1]])
         IN  IF Len(keys) = 1 THEN value
             ELSE IF config[keys[1]].kind # "value" /\ keys[2] \in DOMAIN value
                  THEN value[keys[2]]
                  ELSE "None"

\* lines 117-129, set(*keys, value=value) with one or two keys: the state
\* of the class and the config dictionary of the object behind the call
set(dc, config, keys, value) ==
    IF Len(keys) = 1 THEN [dc |-> dc, config |-> Put(config, keys[1], Scalar(value))]
    ELSE IF keys[1] \notin DOMAIN config
         THEN [dc |-> dc, config |-> Put(config, keys[1], Own(Put(<<>>, keys[2], value)))]
    ELSE IF config[keys[1]].kind = "shared"
         THEN [dc |-> [dc EXCEPT ![config[keys[1]].name] = Put(@, keys[2], value)],
               config |-> config]
    ELSE [dc |-> dc,
          config |-> [config EXCEPT ![keys[1]] = Own(Put(config[keys[1]].dict, keys[2], value))]]

\* lines 86-97, _deep_merge(self.config, update) for an update of nested
\* dictionaries of plain values, key by key
RECURSIVE deep_merge(_, _, _, _)
deep_merge(dc, config, update, todo) ==
    IF todo = {} THEN [dc |-> dc, config |-> config]
    ELSE LET key == CHOOSE k \in todo : TRUE
             merged ==
                 IF key \in DOMAIN config /\ config[key].kind = "shared"
                 THEN [dc |-> [dc EXCEPT ![config[key].name] =
                                  [x \in (DOMAIN @) \cup (DOMAIN update[key]) |->
                                      IF x \in DOMAIN update[key] THEN update[key][x] ELSE @[x]]],
                       config |-> config]
                 ELSE IF key \in DOMAIN config /\ config[key].kind = "own"
                 THEN [dc |-> dc,
                       config |-> [config EXCEPT ![key] =
                                      Own([x \in (DOMAIN config[key].dict) \cup (DOMAIN update[key]) |->
                                              IF x \in DOMAIN update[key] THEN update[key][x]
                                              ELSE config[key].dict[x]])]]
                 ELSE [dc |-> dc, config |-> Put(config, key, Own(update[key]))]
         IN  deep_merge(merged.dc, merged.config, update, todo \ {key})

\* lines 63-72, Config(config_path): user_config is <<>> without a file
Config_init(dc, user_config) ==
    LET config == ShallowCopy(dc)
    IN  IF user_config = <<>> THEN [dc |-> dc, config |-> config]
        ELSE deep_merge(dc, config, user_config, DOMAIN user_config)

NoConfig ==
    /\ default_config = DEFAULT_CONFIG
    /\ instances = <<>>

\* the arguments of the calls
MaxConfigs == 2

MaxCalls == 3

UserConfigs == {<<>>, [logging |-> [level |-> "WARNING"]]}

SetKeys == {<<"logging", "level">>, <<"export", "format">>, <<"custom", "level">>, <<"mode">>}

SetValues == {"DEBUG", "csv"}

\* the variables that the Config class does not touch
K_Unchanged ==
    /\ UNCHANGED <<script, pc, exit_code, warning>>
    /\ UNCHANGED parser_vars
    /\ UNCHANGED batch_vars

\* config = Config(args.config), cli.py line 165
K_New ==
    /\ script = "config"
    /\ idx <= MaxCalls
    /\ Len(instances) < MaxConfigs
    /\ \E user_config \in UserConfigs :
          LET made == Config_init(default_config, user_config)
          IN  /\ default_config' = made.dc
              /\ instances' = Append(instances, [config |-> made.config, file |-> user_config # <<>>])
    /\ idx' = idx + 1
    /\ K_Unchanged

\* config.set(...), cli.py lines 168-181
K_Set ==
    /\ script = "config"
    /\ idx <= MaxCalls
    /\ \E i \in 1..Len(instances), keys \in SetKeys, value \in SetValues :
          LET done == set(default_config, instances[i].config, keys, value)
          IN  /\ default_config' = done.dc
              /\ instances' = [instances EXCEPT ![i].config = done.config]
    /\ idx' = idx + 1
    /\ K_Unchanged

NextConfig == K_New \/ K_Set

----------------------------------------------------------------------------
(* Initial states: a script and the rows extracted from a document *)

\* no batch runs and nothing is downloaded
NoBatch ==
    /\ warning = ""
    /\ NoConfig
    /\ pdf_files = <<>>
    /\ image_files = <<>>
    /\ ocr_results = <<>>
    /\ data = <<>>
    /\ column_mappings = <<>>
    /\ server = <<>>
    /\ district_range = <<1, 0>>
    /\ downloaded_files = <<>>
    /\ max_retries = 0
    /\ attempt = 0
    /\ requests = <<>>
    /\ sleeps = <<>>
    /\ returned = ""


StartOf(sc) ==
    IF sc = "universal" THEN "detect"
    ELSE IF sc = "hierarchical" THEN "h_start"
    ELSE "s_loop"

\* the methods that were called when the rows lie before the parser: every
\* script reads the text of the pages with pdfplumber, extract_universal.py
\* asks Tesseract when there is none, extract_smart_pdf.py asks PaddleOCR
\* alone for a PDF that it holds to be scanned
AttemptsBefore(sc, ps) ==
    IF sc = "universal" /\ ps = <<>> THEN <<"pdfplumber", "Tesseract OCR">>
    ELSE IF sc = "smart" /\ is_scanned_pdf(ps) THEN <<"PaddleOCR">>
    ELSE <<"pdfplumber">>

InitWith(scripts, docs) ==
    /\ script \in scripts
    /\ rows \in docs
    /\ pc = StartOf(script)
    /\ idx = 1
    /\ uses_french_format = TRUE
    /\ header_candidates = <<>>
    /\ data_candidates = <<>>
    /\ current_region = None
    /\ current_section = None
    /\ headers = <<>>
    /\ temp_values = <<>>
    /\ parsed_data = <<>>
    /\ best_header = <<>>
    /\ columns = <<>>
    /\ records = <<>>
    /\ exit_code = -1
    /\ pages = IF rows = <<>> THEN <<>> ELSE <<Page(FALSE, [k \in 1..Len(rows) |-> rows[k][1]], <<>>)>>
    /\ attempts = AttemptsBefore(script, pages)
    /\ method = IF script = "hierarchical" THEN "" ELSE attempts[Len(attempts)]
    /\ written = FALSE
    /\ NoBatch

\* the sequences over S of length at most n
SeqsUpTo(S, n) == UNION {[1..k -> S] : k \in 0..n}

\* text lines as single-cell rows
AsRows(lines) == [k \in 1..Len(lines) |-> <<lines[k]>>]


----------------------------------------------------------------------------
(* SpecTokens: extract_universal.py on documents of one data row, a label  *)
(* followed by up to MaxTokens tokens, alone (French format) or behind a   *)
(* row of comma-grouped numbers (English format).                          *)

MaxTokens == 3

Tokens == {"-", "~", "71", "148", "1,435,332", "007"}

EnglishRow == "TOTAL 1,200 2,300 4,500"

TokenRows(tokens) ==
    {"MALE " \o Join(toks, " ") : toks \in SeqsUpTo(tokens, MaxTokens) \ {<<>>}}

TokenDocs ==
    {AsRows(<<line>>) : line \in TokenRows(Tokens)}
        \cup {AsRows(<<EnglishRow, line>>) : line \in TokenRows(Tokens)}

InitTokens == InitWith({"universal"}, TokenDocs)

SpecTokens == InitTokens /\ [][NextUniversal]_vars

(* SpecFrench: documents of one data row of space-separated number groups *)

FrenchTokens == {"1", "132", "655", "71", "148", "350", "731"}

FrenchDocs == {AsRows(<<line>>) : line \in TokenRows(FrenchTokens)}

InitFrench == InitWith({"universal"}, FrenchDocs)

SpecFrench == InitFrench /\ [][NextUniversal]_vars

(* SpecHeaders: smart_parse_table on documents of up to MaxHeaderRows      *)
(* lines, each a header line with 1, 2, 3 or 5 column keywords or a data   *)
(* line.                                                                   *)

MaxHeaderRows == 3

HeaderLines ==
    {"POPULATION COUNT", "REGION SEX TOTAL", "AREA/ SEX TOTAL",
     "AREA/ SEX TOTAL MUSLIM HINDU"}

HeaderDocs ==
    {AsRows(lines) : lines \in SeqsUpTo(HeaderLines \cup {"MALE 10 20"}, MaxHeaderRows)}

InitHeaders == InitWith({"universal"}, HeaderDocs)

SpecHeaders == InitHeaders /\ [][NextUniversal]_vars

(* SpecFrames: extract_universal.py and extract_hierarchical.py on         *)
(* documents of up to MaxFrameRows lines: data lines of 1, 2 and 8         *)
(* numbers, a header line and a section line.                              *)

MaxFrameRows == 3

FrameLines ==
    {"FEMALE 10", "MALE 10 20", "MALE 10 20 30 40 50 60 70 80",
     "AREA/ SEX TOTAL", "RURAL"}

FrameDocs == {AsRows(lines) : lines \in SeqsUpTo(FrameLines, MaxFrameRows)}

InitFrames == InitWith({"universal", "hierarchical"}, FrameDocs)

SpecFrames == InitFrames /\ [][NextUniversal \/ NextHierarchical]_vars

(* SpecExtract: the five scripts from their first extraction method on, on *)
(* PDFs of up to MaxPages pages.                                           *)

MaxPages == 2

LongText ==
    <<"TABLE 1 POPULATION BY SEX AND RELIGION ACCORDING TO THE CENSUS", "DISTRICT A",
      "MALE 10 20 30 40 50 60 70", "FEMALE 11 21 31 41 51 61 71">>

\* a page that raises, a scanned page, a page of one section line, a page of
\* little text, a page of much text, a page of much text around a table of
\* empty cells, a page with a table and no text
PageKinds ==
    {Page(TRUE, <<>>, <<>>),
     Page(FALSE, <<>>, <<>>),
     Page(FALSE, <<"RURAL">>, <<>>),
     Page(FALSE, <<"ab", "RURAL", " TOTAL 10 20 30 40 50 60 70">>, <<>>),
     Page(FALSE, LongText, <<>>),
     Page(FALSE, LongText, <<<<"", "">>>>),
     Page(FALSE, <<>>, <<<<"MALE", " 10", "20", "30", "40", "50", "60", "70">>, <<"", " ">>,
                         <<"Abc", "1,200 30", "">>>>)}

PdfDocs == SeqsUpTo(PageKinds, MaxPages)

InitExtract ==
    /\ script \in {"universal", "hierarchical", "smart", "app", "generic"}
    /\ pages \in PdfDocs
    /\ pc = IF script = "universal" THEN "u_native"
            ELSE IF script = "generic" THEN "g_native"
            ELSE IF script = "hierarchical" THEN "h_read"
            ELSE IF script = "smart" THEN "s_extract"
            ELSE "a_start"
    /\ rows = <<>>
    /\ idx = 1
    /\ uses_french_format = TRUE
    /\ header_candidates = <<>>
    /\ data_candidates = <<>>
    /\ current_region = None
    /\ current_section = None
    /\ headers = <<>>
    /\ temp_values = <<>>
    /\ parsed_data = <<>>
    /\ best_header = <<>>
    /\ columns = <<>>
    /\ records = <<>>
    /\ exit_code = -1
    /\ attempts = <<>>
    /\ method = ""
    /\ written = FALSE
    /\ NoBatch

NextMain ==
    NextExtract \/ NextUniversal \/ NextSmart \/ NextHierarchical \/ NextApp \/ NextGeneric

SpecExtract == InitExtract /\ [][NextMain]_vars

(* SpecMalformed: the three scripts on data rows with malformed tokens,    *)
(* up to MaxBadTokens of them in front of seven numbers.                   *)
MaxBadTokens == 2

MalformedTokens == {"N/A", "1.2.3", "1.5", "-", "x7", "12"}

SevenNumbers == "10 20 30 40 50 60 70"

MalformedRows ==
    {"MALE " \o Join(toks, " ") \o " " \o SevenNumbers :
        toks \in SeqsUpTo(MalformedTokens, MaxBadTokens) \ {<<>>}}

MalformedDocs ==
    {AsRows(<<line>>) : line \in MalformedRows}
        \cup {AsRows(<<line, "FEMALE " \o SevenNumbers>>) : line \in MalformedRows}

InitMalformed == InitWith({"universal", "hierarchical", "smart"}, MalformedDocs)

SpecMalformed == InitMalformed /\ [][NextUniversal \/ NextHierarchical \/ NextSmart]_vars

(* SpecBatch: cli.py main with --input on batches of up to MaxPdfs files,  *)
(* under the default column mappings and under mappings of a configuration *)
(* file that gives census_standard as a number.                            *)
MaxPdfs == 2

RegionA == <<"DISTRICT A", "ALL SEXES 10 20 30 40 50 60">>

RegionB == <<"OVERALL", "TEHSIL B", " ALL SEXES 1 2 3 4 5 6 7 ">>

SixColumns == <<"DIVISION C", "ALL 10 20 30 40 50">>

PdfKinds ==
    {PdfFile(0, ".txt", TRUE, <<PageImage(TRUE, RegionA)>>),
     PdfFile(0, ".pdf", FALSE, <<>>),
     PdfFile(0, ".pdf", TRUE, <<PageImage(TRUE, RegionA)>>),
     PdfFile(0, ".pdf", TRUE, <<PageImage(FALSE, <<>>)>>),
     PdfFile(0, ".pdf", TRUE, <<PageImage(TRUE, SixColumns)>>),
     PdfFile(0, ".pdf", TRUE, <<PageImage(TRUE, <<"URBAN", "x", "  ">>)>>),
     PdfFile(0, ".pdf", TRUE, <<PageImage(FALSE, <<>>), PageImage(TRUE, RegionB)>>),
     PdfFile(0, ".pdf", TRUE, <<PageImage(TRUE, SixColumns), PageImage(TRUE, RegionA)>>)}

\* the files of a batch carry their position as their name
PdfBatches ==
    {[k \in 1..Len(kinds) |-> [kinds[k] EXCEPT !.name = k]] :
        kinds \in SeqsUpTo(PdfKinds, MaxPdfs)}

UserMappings == Append(DefaultMappings, [key |-> "census_standard", columns |-> <<>>, is_list |-> FALSE])

InitBatch ==
    /\ warning = ""
    /\ NoConfig
    /\ script = "cli"
    /\ pc = "c_input"
    /\ idx = 1
    /\ exit_code = -1
    /\ rows = <<>>
    /\ uses_french_format = TRUE
    /\ header_candidates = <<>>
    /\ data_candidates = <<>>
    /\ current_region = None
    /\ current_section = None
    /\ headers = <<>>
    /\ temp_values = <<>>
    /\ parsed_data = <<>>
    /\ best_header = <<>>
    /\ columns = <<>>
    /\ records = <<>>
    /\ pages = <<>>
    /\ attempts = <<>>
    /\ method = ""
    /\ written = FALSE
    /\ pdf_files \in PdfBatches
    /\ column_mappings \in {DefaultMappings, UserMappings}
    /\ image_files = <<>>
    /\ ocr_results = <<>>
    /\ data = <<>>
    /\ server = <<>>
    /\ district_range = <<1, 0>>
    /\ downloaded_files = <<>>
    /\ max_retries = 0
    /\ attempt = 0
    /\ requests = <<>>
    /\ sleeps = <<>>
    /\ returned = ""

SpecBatch == InitBatch /\ [][NextBatch]_vars

(* SpecDownload: download_file called with up to MaxRetries attempts, and  *)
(* cli.py main with --download on a range of up to MaxDistricts districts. *)
MaxRetries == 3

MaxDistricts == 3

Answers == {"200", "200_cut", "200_unwritable", "404", "500", "timeout"}

\* the answers of the URLs of the districts
DistrictAnswers == {<<"200">>, <<"404">>, <<"500", "200">>, <<"timeout">>}

NothingParsed ==
    /\ warning = ""
    /\ NoConfig
    /\ idx = 1
    /\ exit_code = -1
    /\ rows = <<>>
    /\ uses_french_format = TRUE
    /\ header_candidates = <<>>
    /\ data_candidates = <<>>
    /\ current_region = None
    /\ current_section = None
    /\ headers = <<>>
    /\ temp_values = <<>>
    /\ parsed_data = <<>>
    /\ best_header = <<>>
    /\ columns = <<>>
    /\ records = <<>>
    /\ pages = <<>>
    /\ attempts = <<>>
    /\ method = ""
    /\ written = FALSE
    /\ pdf_files = <<>>
    /\ image_files = <<>>
    /\ ocr_results = <<>>
    /\ data = <<>>
    /\ column_mappings = DefaultMappings
    /\ downloaded_files = <<>>
    /\ attempt = 0
    /\ requests = <<>>
    /\ sleeps = <<>>
    /\ returned = ""

InitDownload ==
    /\ NothingParsed
    /\ \/ /\ script = "download_file"
          /\ pc = "f_loop"
          /\ max_retries \in 0..MaxRetries
          /\ \E answers \in [1..(IF max_retries = 0 THEN 1 ELSE max_retries) -> Answers] :
                server = <<answers>>
          /\ district_range = <<1, 1>>
       \/ /\ script = "cli"
          /\ pc = "c_download"
          /\ max_retries = 0
          /\ \E first \in {1, 9, 99}, n \in 1..MaxDistricts :
                /\ district_range = <<first, first + n - 1>>
                /\ server \in [1..n -> DistrictAnswers]

SpecDownload == InitDownload /\ [][NextDownload]_vars

(* SpecCap: documents of one data row of up to MaxGroupTokens numbers in   *)
(* the French format.                                                      *)
MaxGroupTokens == 4

GroupTokens == {"1", "5", "132", "655"}

GroupDocs ==
    {AsRows(<<"MALE " \o Join(toks, " ")>>) :
        toks \in SeqsUpTo(GroupTokens, MaxGroupTokens) \ {<<>>}}

InitCap == InitWith({"universal"}, GroupDocs)

SpecCap == InitCap /\ [][NextUniversal]_vars

(* Spec: extract_universal.py on documents longer than the window of the   *)
(* locale detection: a data line, filler lines, a data line about the 20th *)
(* row, and a data line of space-separated groups.                         *)

MaxFiller == 20

\* a first line with 0, 1 or 2 comma-grouped numbers
LocaleHead == <<"MALE 12 132", "MALE 1,200 132", "MALE 1,200 2,300">>

\* a later line with 0 to 3 comma-grouped numbers
LocaleTail == <<"MALE 1 132 655", "MALE 1,200 132 655", "MALE 1,200 2,300 655",
                "MALE 1,200 2,300 4,500">>

FillerLines(n) == [k \in 1..n |-> "NOTE"]

LocaleDocs ==
    {AsRows(<<LocaleHead[a]>> \o FillerLines(n) \o <<LocaleTail[b], "MALE 1 132 655">>) :
        a \in 1..3, b \in 1..4, n \in (MaxFiller - 3)..MaxFiller}

InitLocale == InitWith({"universal"}, LocaleDocs)

SpecLocale == InitLocale /\ [][NextUniversal]_vars

(* Spec: extract_universal.py on documents of up to MaxTieRows lines, some *)
(* of which pass the test of a header or of a marker and the test of a     *)
(* data row at once.                                                       *)

MaxTieRows == 3

TieLines == {"REGION - - -", "RURAL - - -", "DIVISION - - -", "MALE - - -", "MALE 10 20", "NOTE"}

TieDocs == {AsRows(lines) : lines \in SeqsUpTo(TieLines, MaxTieRows)}

InitTie == InitWith({"universal"}, TieDocs)

SpecTie == InitTie /\ [][NextUniversal]_vars

(* Spec: extract_universal.py on data lines with up to MaxOcrTokens tokens *)
(* of digits and of the letters that OCR confuses with digits.             *)

MaxOcrTokens == 2

OcrTokens == {"1O", "lI", "5s", "z2", "So", "MALE", "12"}

OcrRows ==
    {"TOTAL " \o Join(toks, " ") \o " 10" :
        toks \in SeqsUpTo(OcrTokens, MaxOcrTokens) \ {<<>>}}

OcrDocs == {AsRows(<<line>>) : line \in OcrRows}

InitOcr == InitWith({"universal"}, OcrDocs)

SpecOcr == InitOcr /\ [][NextUniversal]_vars

(* Spec: up to MaxConfigs Config objects, constructed with and without a   *)
(* configuration file, and up to MaxCalls constructions and set() calls.   *)

InitConfig ==
    /\ NothingParsed
    /\ script = "config"
    /\ pc = "k_run"
    /\ server = <<>>
    /\ district_range = <<1, 0>>
    /\ max_retries = 0

SpecConfig == InitConfig /\ [][NextConfig]_vars

(* Spec: extract_universal.py and extract_multi_page_pdf.py on PDFs of two *)
(* pages of up to MaxPageLines lines each.                                 *)

MaxPageLines == 2

PagedLines == {"SUB-DIVISION B", "RURAL", "MALE 10 20 30 40 50 60 70"}

PagedDocs ==
    {<<Page(FALSE, first, <<>>), Page(FALSE, second, <<>>)>> :
        first \in SeqsUpTo(PagedLines, MaxPageLines),
        second \in SeqsUpTo(PagedLines, MaxPageLines)}

InitPaged ==
    /\ script \in {"universal", "multi_page"}
    /\ pages \in PagedDocs
    /\ pc = IF script = "universal" THEN "u_native" ELSE "m_page"
    /\ rows = <<>>
    /\ idx = 1
    /\ uses_french_format = TRUE
    /\ header_candidates = <<>>
    /\ data_candidates = <<>>
    /\ current_region = None
    /\ current_section = None
    /\ headers = <<>>
    /\ temp_values = <<>>
    /\ parsed_data = <<>>
    /\ best_header = <<>>
    /\ columns = <<>>
    /\ records = <<>>
    /\ exit_code = -1
    /\ attempts = <<>>
    /\ method = ""
    /\ written = FALSE
    /\ NoBatch

NextPaged == U_TryPdfplumber \/ U_TryTesseract \/ NextUniversal \/ NextMultiPage

SpecPaged == InitPaged /\ [][NextPaged]_vars

(* Spec: extract_universal.py on one data line that holds a number written *)
(* in groups of three digits, with and without leading zeros in a group.   *)

GroupValues == {0, 45, 132, 999}

RoundTripNumbers ==
    {lead * 1000000 + high * 1000 + low :
        lead \in 0..4, high \in GroupValues, low \in GroupValues} \ 0..999

\* N in groups of three digits with a blank between them
RECURSIVE FrenchWrite(_)
FrenchWrite(N) ==
    IF N < 1000 THEN IntToStr(N)
    ELSE FrenchWrite(N \div 1000) \o " " \o ZFill3(IntToStr(N % 1000))

RoundTripDocs == {AsRows(<<"MALE " \o FrenchWrite(N)>>) : N \in RoundTripNumbers}

InitRoundTrip == InitWith({"universal"}, RoundTripDocs)

SpecRoundTrip == InitRoundTrip /\ [][NextUniversal]_vars

(* Spec: extract_universal.py on one data line of up to MaxPassTokens      *)
(* tokens behind its label, among them ALL, SEXES and groups of digits.    *)

MaxPassTokens == 4

PassTokens == {"ALL", "SEXES", "1", "132", "655"}

PassDocs ==
    {AsRows(<<"MALE " \o Join(toks, " ")>>) :
        toks \in SeqsUpTo(PassTokens, MaxPassTokens) \ {<<>>}}

InitPass == InitWith({"universal"}, PassDocs)

SpecPass == InitPass /\ [][NextUniversal]_vars

(* Spec: the three scripts on documents of                                 *)
(* up to MaxRows lines, each a region line, a section line or a data line, *)
(* and on the four lines of the end-to-end scenario.                       *)

MaxRows == 4

ContextLines == {"DISTRICT A", "SUB-DIVISION B", "RURAL", "URBAN", "MALE 10 20 30 40 50 60 70"}

ScenarioLines ==
    <<"DISTRICT A", "OVERALL", "ALL SEXES 1,200 600 300 200 50 30 20",
      "MALE 600 300 150 100 25 15 10">>

ContextDocs ==
    {AsRows(lines) : lines \in SeqsUpTo(ContextLines, MaxRows)} \cup {AsRows(ScenarioLines)}

Init == InitWith({"universal", "hierarchical", "smart"}, ContextDocs)

Next == NextUniversal \/ NextHierarchical \/ NextSmart

Spec == Init /\ [][Next]_vars

----------------------------------------------------------------------------
(* What the properties below read off a state *)

\* the first pass of the row at idx is done, the second is not
FirstPassDone == script = "universal" /\ pc = "combine"

\* the raw tokens of the row at idx, as the first pass meets them
CurrentTokens == SelectSeq(RowParts(data_candidates[idx].row), LAMBDA p : Strip(p) # "")

\* both passes of the row at idx - 1 are done, and no later row is begun
SecondPassDone ==
    /\ script = "universal"
    /\ pc \in {"parse", "return", "assemble", "done"}
    /\ idx > 1
    /\ Len(parsed_data) = idx - 1

\* the values of the row at idx - 1 behind its two context columns
LastValues == SubSeq(parsed_data[idx - 1], 3, Len(parsed_data[idx - 1]))

IsDashToken(p) == p = "-" \/ p = EmDash

CountIn(seq, Test(_)) == Cardinality({k \in 1..Len(seq) : Test(seq[k])})

IsNull(c) == c.t = "Null"

IsInteger(c) == c.t = "Integer"

\* a token without its thousands separators
RECURSIVE WithoutSeparators(_)
WithoutSeparators(p) ==
    IF p = "" THEN ""
    ELSE IF Head(p) \in {",", " "} THEN WithoutSeparators(Tail(p))
    ELSE Head(p) \o WithoutSeparators(Tail(p))

AllDigits(p) ==
    p # "" /\ \A i \in 1..Len(p) : CharAt(p, i) \in {"0", "1", "2", "3", "4", "5", "6", "7", "8", "9"}

Pow10(k) == IF k = 0 THEN 1 ELSE IF k = 1 THEN 10 ELSE IF k = 2 THEN 100
            ELSE IF k = 3 THEN 1000 ELSE IF k = 4 THEN 10000 ELSE IF k = 5 THEN 100000
            ELSE IF k = 6 THEN 1000000 ELSE 10000000

\* the number that a string of at most 8 digits denotes
RECURSIVE DecimalSum(_, _)
DecimalSum(p, i) ==
    IF i > Len(p) THEN 0
    ELSE (CHOOSE d \in 0..9 : CharAt("0123456789", d + 1) = CharAt(p, i)) * Pow10(Len(p) - i)
            + DecimalSum(p, i + 1)

DecimalValue(p) == DecimalSum(p, 1)

----------------------------------------------------------------------------
(* C1: a raw token that is a dash, "-" or the em dash, is None at its own  *)
(* position after the first pass: not 0, not a text value; and the second  *)
(* pass drops none of them, so the parsed row holds a None for every dash  *)
(* token of its row.                                                       *)
C1_DashIsNull ==
    /\ FirstPassDone =>
          /\ Len(temp_values) = Len(CurrentTokens)
          /\ \A k \in 1..Len(CurrentTokens) :
                IsDashToken(CurrentTokens[k]) => temp_values[k] = NullCell
    /\ SecondPassDone =>
          CountIn(LastValues, IsNull) >= CountIn(temp_values, IsNull)

C1_Witness ==
    /\ SecondPassDone
    /\ \E j, k \in 1..Len(temp_values) :
          /\ j < k
          /\ temp_values[j] = NullCell
          /\ temp_values[k] = NullCell
          /\ Len(LastValues) = Len(temp_values)
          /\ LastValues[j] = NullCell
          /\ LastValues[k] = NullCell
    /\ Contains(rows[Len(rows)][1], "-")
    /\ Contains(rows[Len(rows)][1], EmDash)

(* C2: a token that is digits only once its thousands separators are       *)
(* removed becomes an Integer whose value is the number those digits       *)
(* denote.                                                                 *)
C2_DigitsAreInteger ==
    FirstPassDone =>
       \A k \in 1..Len(CurrentTokens) :
          AllDigits(WithoutSeparators(CurrentTokens[k])) =>
             /\ k <= Len(temp_values)
             /\ temp_values[k] = IntCell(DecimalValue(WithoutSeparators(CurrentTokens[k])))

C2_Witness ==
    /\ FirstPassDone
    /\ \E j, k \in 1..Len(CurrentTokens) :
          /\ CurrentTokens[j] = "1,435,332"
          /\ temp_values[j] = IntCell(1435332)
          /\ CurrentTokens[k] = "007"
          /\ temp_values[k] = IntCell(7)

(* C3: in the French format an integer below 1000 that leads the numbers   *)
(* of a row and is followed by three-digit values in 100..999 is joined    *)
(* with them, digit group after digit group, into one integer (with at     *)
(* most two groups behind a lead of at most 4 and one group behind a       *)
(* larger lead): 1 132 655 gives 1132655, 71 148 gives 71148 and 350 731   *)
(* gives 350731.                                                           *)
IsThreeDigits(c) == c.t = "Integer" /\ c.n >= 100 /\ c.n <= 999

\* how many of the values behind position 2 are joined to the lead
JoinedGroups(tv) ==
    LET run == IF Len(tv) >= 4 /\ IsThreeDigits(tv[3]) /\ IsThreeDigits(tv[4]) THEN 2
               ELSE IF Len(tv) >= 3 /\ IsThreeDigits(tv[3]) THEN 1
               ELSE 0
    IN  IF run = 2 /\ tv[2].n > 4 THEN 1 ELSE run

LabelThen(tv, numbers) ==
    tv = <<TextCell("MALE")>> \o [k \in 1..Len(numbers) |-> IntCell(numbers[k])]

C3_FrenchMerge ==
    (SecondPassDone /\ rows[1] # <<EnglishRow>>) =>
       /\ uses_french_format
       /\ (/\ Len(temp_values) >= 3
           /\ temp_values[1].t = "Text"
           /\ temp_values[2].t = "Integer"
           /\ temp_values[2].n < 1000
           /\ JoinedGroups(temp_values) >= 1) =>
             /\ LastValues[1] = temp_values[1]
             /\ LastValues[2] =
                  IF JoinedGroups(temp_values) = 1
                  THEN IntCell(temp_values[2].n * 1000 + temp_values[3].n)
                  ELSE IntCell(temp_values[2].n * 1000000 + temp_values[3].n * 1000
                                  + temp_values[4].n)
       /\ LabelThen(temp_values, <<1, 132, 655>>) =>
             LastValues = <<TextCell("MALE"), IntCell(1132655)>>
       /\ LabelThen(temp_values, <<71, 148>>) =>
             LastValues = <<TextCell("MALE"), IntCell(71148)>>
       /\ LabelThen(temp_values, <<350, 731>>) =>
             LastValues = <<TextCell("MALE"), IntCell(350731)>>

C3_Witness ==
    /\ SecondPassDone
    /\ uses_french_format
    /\ LabelThen(temp_values, <<1, 132, 655>>)
    /\ LastValues = <<TextCell("MALE"), IntCell(1132655)>>

(* C4: in the English format no groups are joined: the token "1,435,332"   *)
(* is the Integer 1435332, and the integers of a parsed row are the        *)
(* integers of its tokens, one for one and in order.                       *)
C4_EnglishNoMerge ==
    (script = "universal" /\ rows[1] = <<EnglishRow>>) =>
       /\ pc # "detect" => ~uses_french_format
       /\ FirstPassDone =>
             \A k \in 1..Len(CurrentTokens) :
                CurrentTokens[k] = "1,435,332" => temp_values[k] = IntCell(1435332)
       /\ SecondPassDone =>
             SelectSeq(LastValues, IsInteger) = SelectSeq(temp_values, IsInteger)

C4_Witness ==
    /\ SecondPassDone
    /\ ~uses_french_format
    /\ LabelThen(temp_values, <<1435332, 71, 148>>)
    /\ LastValues = temp_values

----------------------------------------------------------------------------
(* The rows of a document as the specification tags them *)

\* a region marker: an administrative-division keyword and no number
IsRegionLine(line) ==
    /\ Contains(Upper(line), "DISTRICT") \/ Contains(Upper(line), "DIVISION")
    /\ CountNumbers(line, 1) = 0

\* a section marker: one of OVERALL, RURAL, URBAN
IsSectionLine(line) == line \in {"OVERALL", "RURAL", "URBAN"}

\* a data row: a label and numbers
IsDataLine(line) ==
    /\ ~IsRegionLine(line)
    /\ ~IsSectionLine(line)
    /\ CountWords(line, 1) >= 1
    /\ CountNumbers(line, 1) >= 1

\* the positions of the data rows, and the position of the k-th of them
DataPositions == {p \in 1..Len(rows) : IsDataLine(rows[p][1])}

DataPosition(k) ==
    CHOOSE p \in DataPositions : Cardinality({q \in DataPositions : q <= p}) = k

\* the last region marker before position p, 0 if none
LastRegion(p) ==
    LET before == {q \in 1..(p - 1) : IsRegionLine(rows[q][1])}
    IN  IF before = {} THEN 0 ELSE SetMax(before)

\* the last section marker between the last region marker and p, 0 if none
LastSection(p) ==
    LET before == {q \in (LastRegion(p) + 1)..(p - 1) : IsSectionLine(rows[q][1])}
    IN  IF before = {} THEN 0 ELSE SetMax(before)

\* every data row of the document is parsed, the result is not yet assembled
AllParsed == pc \in {"return", "assemble", "h_frame", "done"}

IsUnset(c) == c = NullCell \/ c = TextCell("")

(* C5: every data row is stamped with the text of the last region marker   *)
(* before it as region, and with the text of the last section marker seen  *)
(* since that region marker as section, however many data rows lie         *)
(* between: "DISTRICT A", "RURAL" and two data rows give two rows of       *)
(* region "DISTRICT A" and section "RURAL".                                *)
C5_ForwardFill ==
    AllParsed =>
       /\ Len(parsed_data) = Cardinality(DataPositions)
       /\ \A k \in 1..Len(parsed_data) :
             LET p == DataPosition(k)
             IN  /\ LastRegion(p) # 0 =>
                       parsed_data[k][1] = TextCell(rows[LastRegion(p)][1])
                 /\ LastSection(p) # 0 =>
                       parsed_data[k][2] = TextCell(rows[LastSection(p)][1])

(* C6: a new region marker clears the section: a data row whose last       *)
(* region marker has no section marker behind it carries that region and   *)
(* no section.                                                             *)
C6_RegionClearsSection ==
    AllParsed =>
       \A k \in 1..Len(parsed_data) :
          LET p == DataPosition(k)
          IN  (k <= Cardinality(DataPositions) /\ LastRegion(p) # 0 /\ LastSection(p) = 0) =>
                 /\ parsed_data[k][1] = TextCell(rows[LastRegion(p)][1])
                 /\ IsUnset(parsed_data[k][2])

(* C7 as the claim states it: a field of the cursor that is set stays set. *)
C7_NeverEmptied ==
    [][/\ current_region.set => current_region'.set
       /\ current_section.set => current_section'.set]_vars

(* C7, amended: the region, once set, stays set, and changes only to the   *)
(* text of a region line.  The section changes only to the text of a       *)
(* section line, or to None when smart_parse_table meets a new region      *)
(* marker.                                                                 *)
C7_CursorRetained ==
    [][/\ current_region.set => current_region'.set
       /\ current_region' # current_region =>
             /\ current_region' = Some(rows[idx][1])
             /\ IsRegionLine(rows[idx][1])
       /\ current_section' # current_section =>
             \/ /\ current_section' = Some(rows[idx][1])
                /\ IsSectionLine(rows[idx][1])
             \/ /\ current_section' = None
                /\ script = "universal"
                /\ current_region' = Some(rows[idx][1])
                /\ IsRegionLine(rows[idx][1])]_vars

\* the section was set, and a new region marker of smart_parse_table emptied it
C7_Witness ==
    /\ script = "universal"
    /\ pc = "classify"
    /\ idx = 3
    /\ IsSectionLine(rows[1][1])
    /\ current_region = Some(rows[2][1])
    /\ current_section = None

(* C8: the four lines of the scenario give exactly two records, of region  *)
(* "DISTRICT A" and section "OVERALL", labelled "ALL SEXES" and "MALE",    *)
(* the first with the numbers 1200, 600, 300, 200, 50, 30, 20.             *)
C8_EndToEnd ==
    (script = "universal" /\ rows = AsRows(ScenarioLines) /\ pc = "done") =>
       /\ Len(records) = 2
       /\ \A k \in 1..2 :
             /\ records[k][1] = TextCell("DISTRICT A")
             /\ records[k][2] = TextCell("OVERALL")
       /\ records[1][3] = TextCell("ALL SEXES")
       /\ records[2][3] = TextCell("MALE")
       /\ SubSeq(records[1], 4, Len(records[1])) =
             <<IntCell(1200), IntCell(600), IntCell(300), IntCell(200), IntCell(50),
               IntCell(30), IntCell(20)>>

----------------------------------------------------------------------------
(* The assembled result of extract_universal.py and extract_smart_pdf.py *)

Assembled == script \in {"universal", "smart"} /\ pc = "done" /\ exit_code = 0

\* the parsed rows as the DataFrame holds them before drop_duplicates
FrameRows == IF script = "universal" THEN PadRows(parsed_data) ELSE parsed_data

\* the positions of the rows that no earlier row equals
FirstOccurrences ==
    {i \in 1..Len(FrameRows) : \A j \in 1..(i - 1) : ~RowEq(FrameRows[j], FrameRows[i])}

FirstOccurrence(k) ==
    CHOOSE p \in FirstOccurrences : Cardinality({q \in FirstOccurrences : q <= p}) = k

NoTwoEqual ==
    \A k, l \in 1..Len(records) : k # l => ~RowEq(records[k], records[l])

InRowOrder ==
    \A k \in 1..Len(records) : records[k] = FrameRows[FirstOccurrence(k)]

----------------------------------------------------------------------------
(* The header that smart_parse_table chooses *)

HeaderChosen == script = "universal" /\ pc \in {"parse", "combine", "return", "assemble", "done"}

\* the header lines of the document, in the order of its rows
HeaderRows == SelectSeq(rows, LAMBDA row : row[1] \in HeaderLines)

\* the candidates with at least 3 of the column keywords
Qualifying == {k \in 1..Len(HeaderRows) : KeywordMatches(HeaderRows[k]) >= 3}

(* C10: the header candidates are the header rows in the order of the      *)
(* document, and the chosen header is the first of them with at least 3    *)
(* column keywords, also when a later one has more; with no such candidate *)
(* no header is chosen.                                                    *)
C10_FirstQualifying ==
    HeaderChosen =>
       /\ header_candidates = HeaderRows
       /\ best_header = IF Qualifying = {} THEN <<>> ELSE HeaderRows[SetMin(Qualifying)]

\* two candidates reach the threshold, the later with more keywords, and the
\* earlier is the header
C10_Witness ==
    /\ HeaderChosen
    /\ \E k, l \in Qualifying :
          /\ k < l
          /\ KeywordMatches(HeaderRows[k]) < KeywordMatches(HeaderRows[l])
          /\ \A j \in 1..(k - 1) : j \notin Qualifying
          /\ best_header = HeaderRows[k]

----------------------------------------------------------------------------
(* The frame that main assembles *)

Framed == script \in {"universal", "hierarchical"} /\ pc = "done" /\ exit_code = 0

Nulls(n) == [j \in 1..n |-> NullCell]

\* the number of values that the k-th data line of the document supplies
SuppliedValues(k) == Len(SplitWs(rows[DataPosition(k)][1])) - 1

(* C11: every record of an assembled result has as many values as there    *)
(* are column names, and a row that supplied fewer values ends with Null:  *)
(* a record of extract_universal.py is a parsed row followed by Null only, *)
(* a record of extract_hierarchical.py holds Null behind the values of its *)
(* line.                                                                   *)
C11_Rectangular ==
    Framed =>
       /\ \A k \in 1..Len(records) : Len(records[k]) = Len(columns)
       /\ script = "universal" =>
             \A k \in 1..Len(records) : \E i \in 1..Len(parsed_data) :
                /\ Len(parsed_data[i]) <= Len(columns)
                /\ records[k] = parsed_data[i] \o Nulls(Len(columns) - Len(parsed_data[i]))
       /\ script = "hierarchical" =>
             /\ Len(records) = Cardinality(DataPositions)
             /\ \A k \in 1..Len(records) : \A j \in 1..7 :
                   j > SuppliedValues(k) => records[k][3 + j] = NullCell

\* a row of extract_universal.py that is shorter than the longest one
C11_Witness ==
    /\ Framed
    /\ script = "universal"
    /\ \E i \in 1..Len(parsed_data) : Len(parsed_data[i]) < Len(columns)
    /\ \E k \in 1..Len(records) : records[k][Len(columns)] = NullCell

----------------------------------------------------------------------------
(* The end of main *)

Ended == pc = "done"

(* C12: when the extraction methods of extract_universal.py,               *)
(* extract_smart_pdf.py or app.py have yielded no rows, the script ends    *)
(* with a failure (a non-zero exit status, in app.py the error result) and *)
(* has written no output; success comes with records and an output only.   *)
C12_NoDataFails ==
    (Ended /\ script \in {"universal", "smart", "app"}) =>
       /\ exit_code \in {0, 1}
       /\ rows = <<>> => exit_code = 1 /\ ~written /\ records = <<>>
       /\ exit_code = 0 => records # <<>> /\ written
       /\ written => exit_code = 0

\* pdfplumber and Tesseract were both called and returned, neither gave a row
C12_Witness ==
    /\ Ended
    /\ script = "universal"
    /\ attempts = <<"pdfplumber", "Tesseract OCR">>
    /\ method = "Tesseract OCR"
    /\ rows = <<>>
    /\ exit_code = 1
    /\ ~written


----------------------------------------------------------------------------
(* The order of the extraction methods in extract_universal.py and         *)
(* extract_smart_pdf.py *)

\* the rows are decided and lie before the parser, or the script has ended
Extracted ==
    /\ script \in {"universal", "smart", "generic"}
    /\ pc \notin {"u_native", "u_ocr", "s_extract", "s_inner", "s_fallback",
                  "g_native", "g_paddle", "g_tesseract"}

\* the rows that native text extraction gives, <<>> if it fails
NativeRows ==
    IF AnyRaises(pages) THEN <<>>
    ELSE IF script = "universal" THEN try_pdfplumber(pages).rows
    ELSE IF script = "generic" THEN Concat([k \in 1..Len(pages) |-> G_PageRows(pages[k])])
    ELSE extract_with_pdfplumber(pages)

IsOcr(m) == m \in {"Tesseract OCR", "PaddleOCR", "Tesseract"}

Crashed ==
    /\ pc = "done"
    /\ exit_code = 1
    /\ attempts # <<>>
    /\ method # attempts[Len(attempts)]

----------------------------------------------------------------------------
CellTypes == {"Integer", "Float", "Text", "Null"}

IsTyped(c) == c.t \in CellTypes

\* extract_universal.py has parsed every data row
UniversalParsed == script = "universal" /\ pc \in {"return", "assemble", "done"}

(* C14: normalization never raises: the first pass of extract_universal.py *)
(* gives one Integer, Float, Text or Null cell for every token of a data   *)
(* row, also for a malformed one, and the tokens behind it and the rows    *)
(* behind its row are still parsed, so that every data row of the document *)
(* has its parsed row of typed cells.                                      *)
C14_NeverRaises ==
    /\ FirstPassDone =>
          /\ Len(temp_values) = Len(CurrentTokens)
          /\ \A k \in 1..Len(temp_values) : IsTyped(temp_values[k])
    /\ UniversalParsed =>
          /\ Len(parsed_data) = Len(data_candidates)
          /\ \A r \in 1..Len(parsed_data) :
                \A k \in 1..Len(parsed_data[r]) : IsTyped(parsed_data[r][k])

\* float() raised for 1.2.3, which is a Text; the numbers behind it and the
\* row behind its row are parsed
C14_Witness ==
    /\ UniversalParsed
    /\ Len(rows) = 2
    /\ Contains(rows[1][1], " 1.2.3 ")
    /\ Len(parsed_data) = 2
    /\ \E k \in 1..Len(parsed_data[1]) :
          /\ parsed_data[1][k] = TextCell("1.2.3")
          /\ k + 7 <= Len(parsed_data[1])
          /\ \A j \in 1..7 : parsed_data[1][k + j].t = "Integer"
    /\ parsed_data[2][3] = TextCell("FEMALE")

----------------------------------------------------------------------------
\* digits with at most one dot among them: what int() or float() accepts of
\* a cleaned token
IsNumberText(clean) ==
    IsDigitStr(ReplaceChar(clean, ".", "")) /\ CountChar(clean, ".") <= 1

\* neither a dash nor a number after cleaning
Unparsable(token) ==
    ~IsDashClean(CleanPart(token)) /\ ~IsNumberText(CleanPart(token))

\* the tokens of the data row at position p of the document
TokensOf(p) == SplitWs(rows[p][1])

(* C15: a token of a data row that is not a dash and does not parse as     *)
(* integer or float after cleaning is a Text value of the record of its    *)
(* row; it is never discarded from the row.                                *)
C15_TextKept ==
    (AllParsed /\ rows # <<>>) =>
       /\ Len(parsed_data) = Len(rows)
       /\ \A p \in 1..Len(rows) :
             \A i \in 1..Len(TokensOf(p)) :
                Unparsable(TokensOf(p)[i]) =>
                   \E k \in 1..Len(parsed_data[p]) :
                      parsed_data[p][k] = TextCell(TokensOf(p)[i])

----------------------------------------------------------------------------
\* try_pdfplumber of extract_universal.py has returned and no other method
\* was called
NativeReturned ==
    script = "universal" /\ pc # "u_native" /\ attempts = <<"pdfplumber">>

\* the rows of the pages whose extraction does not raise
GoodPageRows ==
    Concat([k \in 1..Len(pages) |-> IF pages[k].raises THEN <<>> ELSE U_PageRows(pages[k])])

(* C16: in native text extraction a failure while extracting one page does *)
(* not abort the extraction of the other pages: when try_pdfplumber has    *)
(* returned, the rows it returned are the rows of every page that          *)
(* extracted successfully.                                                 *)
C16_PagesIsolated == NativeReturned => rows = GoodPageRows

----------------------------------------------------------------------------
\* the batch is behind its conversion, behind its OCR, behind its parsing
BatchConverted == script = "cli" /\ pc \in {"c_ocr", "c_parse", "c_export", "done"}

BatchRecognised == script = "cli" /\ pc \in {"c_parse", "c_export", "done"}

BatchParsed == script = "cli" /\ pc \in {"c_export", "done"}

\* the page numbers of the PDF file at position k of the batch
PagesOf(k) == 1..Len(pdf_files[k].pages)

ImagePath(k, i) == <<pdf_files[k].name, i - 1>>

\* what the parser makes of page i of the file at k, taken by itself
PageResult(k, i) ==
    parse_single_result(column_mappings,
                        [lines |-> process_image(pdf_files[k].pages[i]).lines],
                        ImagePath(k, i))

\* page i of the file at k is usable: the file converts, the image is read
\* and its text is parsed
IsUsable(k, i) ==
    /\ pdf_files[k].readable
    /\ pdf_files[k].pages[i].readable
    /\ ~PageResult(k, i).raises

RowsFrom(path) == SelectSeq(data, LAMBDA row : row.SOURCE_IMAGE = path)

(* C17: batch isolation in cli.py main.  A PDF file whose conversion       *)
(* raises, an image whose OCR raises and an OCR result whose parsing       *)
(* raises stop none of the others: every page of every file that converts  *)
(* becomes an image, every image gets an OCR result, and every usable page *)
(* has its rows in the DataFrame.  The run ends with exit status 1 exactly *)
(* when no page of the whole batch gives a row, and exports otherwise.     *)
C17_BatchIsolation ==
    /\ BatchConverted =>
          \A k \in 1..Len(pdf_files) :
             pdf_files[k].readable =>
                \A i \in PagesOf(k) :
                   \E j \in 1..Len(image_files) : image_files[j].path = ImagePath(k, i)
    /\ BatchRecognised =>
          \A j \in 1..Len(image_files) :
             \E r \in 1..Len(ocr_results) : ocr_results[r].image_path = image_files[j].path
    /\ BatchParsed =>
          \A k \in 1..Len(pdf_files) :
             \A i \in PagesOf(k) :
                IsUsable(k, i) => RowsFrom(ImagePath(k, i)) = PageResult(k, i).rows
    /\ (script = "cli" /\ pc = "done") =>
          /\ exit_code = 1 <=>
                ~\E k \in 1..Len(pdf_files) :
                    \E i \in PagesOf(k) : IsUsable(k, i) /\ PageResult(k, i).rows # <<>>
          /\ exit_code = 0 <=> written

\* the first file does not convert and the first page of the second does not
\* parse; the row of its second page is exported
C17_Witness ==
    /\ script = "cli"
    /\ pc = "done"
    /\ exit_code = 0
    /\ Len(pdf_files) = 2
    /\ ~pdf_files[1].readable
    /\ Len(pdf_files[2].pages) = 2
    /\ pdf_files[2].pages[1].readable
    /\ PageResult(2, 1).raises
    /\ Len(data) = 1
    /\ data[1].SOURCE_IMAGE = ImagePath(2, 2)
    /\ data[1].REGION = "DISTRICT A"

----------------------------------------------------------------------------
\* download_from_url_pattern has returned
DownloadReturned == script = "cli" /\ pc # "c_download" /\ server # <<>>

\* the URL of the district at position k answers 200, at once or behind
\* answers that lead to another attempt
CanDownload(k) ==
    \E n \in 1..Len(server[k]) :
       /\ server[k][n] = "200"
       /\ \A m \in 1..(n - 1) : AnswerKind(server[k][m]) = "retry"

(* C18: download_from_url_pattern returns the output paths of the          *)
(* districts whose URL could be downloaded, in the order of the district   *)
(* codes: the path of a district is in the list if and only if its URL     *)
(* answered 200, and a failure for one file does not stop the others.      *)
C18_DownloadedPaths ==
    DownloadReturned =>
       LET good == SelectSeq([k \in 1..DistrictCount |-> k], CanDownload)
       IN  downloaded_files = [j \in 1..Len(good) |-> OutputPath(good[j])]

----------------------------------------------------------------------------
\* download_file was called by itself and has ended
FileCall == script = "download_file"

FileReturned == FileCall /\ pc = "done"

IsStatus200(answer) == answer \in {"200", "200_cut", "200_unwritable"}

\* the sleeps that the first n requests ask for when the answers in S are
\* followed by a back-off
RECURSIVE SleepsBehind(_, _)
SleepsBehind(n, S) ==
    IF n = 0 THEN <<>>
    ELSE SleepsBehind(n - 1, S)
            \o (IF requests[n].answer \in S /\ n < max_retries THEN <<2 ^ (n - 1)>> ELSE <<>>)

(* C19 as the claim states it: download_file sends at most max_retries     *)
(* requests and stops at the first decisive response, with True for the    *)
(* first HTTP 200 and False for the first HTTP 404; only other statuses    *)
(* and request exceptions lead to another attempt; the back-off sleep of   *)
(* 2^attempt seconds follows a request exception only, and never the last  *)
(* attempt; with the attempts used up the function returns False.          *)
C19_FirstDecisive ==
    FileCall =>
       /\ Len(requests) <= max_retries
       /\ \A n \in 1..Len(requests) :
             /\ IsStatus200(requests[n].answer) =>
                   n = Len(requests) /\ pc = "done" /\ returned = "True"
             /\ requests[n].answer = "404" =>
                   n = Len(requests) /\ pc = "done" /\ returned = "False"
       /\ sleeps = SleepsBehind(Len(requests), {"timeout"})
       /\ pc = "done" => returned \in {"True", "False"}
       /\ (pc = "done" /\ Len(requests) = max_retries /\ returned # "True") =>
             returned = "False"

(* C19, amended: download_file sends at most max_retries requests.  It     *)
(* returns True at the first HTTP 200 whose body is received and written   *)
(* and False at the first HTTP 404, without a further attempt.  Another    *)
(* attempt follows any other status and any request exception, also the    *)
(* one raised while the body of an HTTP 200 response is read.  The         *)
(* back-off sleep of 2^attempt seconds follows a request exception only,   *)
(* and never the last attempt.  With the attempts used up the function     *)
(* returns False; an OSError of writing the file leaves it as an           *)
(* exception.                                                              *)
C19_Retry ==
    FileCall =>
       /\ Len(requests) <= max_retries
       /\ \A n \in 1..Len(requests) :
             /\ requests[n].attempt = n - 1
             /\ requests[n].answer = AnswerAt(server[1], n)
             /\ n < Len(requests) => requests[n].answer \in {"500", "timeout", "200_cut"}
       /\ sleeps = SleepsBehind(Len(requests), {"timeout", "200_cut"})
       /\ pc # "done" =>
             /\ returned = ""
             /\ \A n \in 1..Len(requests) : requests[n].answer \in {"500", "timeout", "200_cut"}
       /\ pc = "done" =>
             LET last == IF requests = <<>> THEN "" ELSE requests[Len(requests)].answer
             IN  /\ last = "200" => returned = "True"
                 /\ last = "404" => returned = "False"
                 /\ last = "200_unwritable" => returned = "OSError"
                 /\ last \notin {"200", "404", "200_unwritable"} =>
                       returned = "False" /\ Len(requests) = max_retries

\* three attempts that all end in a request exception: a sleep of 1 and of 2
\* seconds, none behind the third, and False
C19_Witness ==
    /\ FileReturned
    /\ max_retries = 3
    /\ Len(requests) = 3
    /\ \A n \in 1..3 : requests[n].answer = "timeout"
    /\ sleeps = <<1, 2>>
    /\ returned = "False"

----------------------------------------------------------------------------
\* the values that the cap of the claim gives for tv from position i on: a
\* lead of at most 4 takes up to 2 groups, any other lead below 1000 takes
\* 1, and the value behind the taken groups is the next lead
RECURSIVE CappedMerge(_, _)
CappedMerge(tv, i) ==
    IF i > Len(tv) THEN <<>>
    ELSE IF tv[i].t # "Integer" \/ tv[i].n >= 1000 THEN <<tv[i]>> \o CappedMerge(tv, i + 1)
    ELSE LET lead == tv[i].n
             one  == i + 1 <= Len(tv) /\ IsThreeDigits(tv[i + 1])
             two  == one /\ i + 2 <= Len(tv) /\ IsThreeDigits(tv[i + 2])
         IN  IF two /\ lead <= 4
             THEN <<IntCell(lead * 1000000 + tv[i + 1].n * 1000 + tv[i + 2].n)>>
                     \o CappedMerge(tv, i + 3)
             ELSE IF one
             THEN <<IntCell(lead * 1000 + tv[i + 1].n)>> \o CappedMerge(tv, i + 2)
             ELSE <<tv[i]>> \o CappedMerge(tv, i + 1)

(* C20: the cap of the French merge.  A leading value of at most 4 is      *)
(* joined with at most 2 following three-digit groups and a leading value  *)
(* of 5..999 with at most 1; a three-digit value beyond the cap is not     *)
(* joined to that number, it is the leading value of the next one.         *)
C20_MergeCap ==
    (SecondPassDone /\ uses_french_format) =>
       /\ LastValues = CappedMerge(temp_values, 1)
       /\ \A k \in 1..Len(LastValues) :
             LastValues[k].t = "Integer" => LastValues[k].n < 5000000

\* 1 132 655 132: two groups are joined to the lead 1, the third is a value
\* of its own
C20_Witness ==
    /\ SecondPassDone
    /\ uses_french_format
    /\ LabelThen(temp_values, <<1, 132, 655, 132>>)
    /\ LastValues = <<TextCell("MALE"), IntCell(1132655), IntCell(132)>>


----------------------------------------------------------------------------
(* The locale of a document *)

\* the comma-grouped numbers of the rows lo..hi of the document
RECURSIVE CommasIn(_, _)
CommasIn(lo, hi) ==
    IF lo > hi \/ lo > Len(rows) THEN 0
    ELSE CountComma(RowText(rows[lo]), 1) + CommasIn(lo + 1, hi)

\* the data rows parsed so far, each under the given locale
ParsedUnder(french) ==
    \A k \in 1..Len(parsed_data) :
        parsed_data[k] =
            ParsedRow(data_candidates[k], FirstPass(RowParts(data_candidates[k].row)), french)

(* C21: the locale is one decision for the document: it is English exactly *)
(* when the first 20 rows hold at least 3 comma-grouped numbers in total,  *)
(* French otherwise; rows behind the 20th have no part in it; every data   *)
(* row is parsed under that one locale.                                    *)
C21_OneLocale ==
    (script = "universal" /\ pc # "detect" /\ rows # <<>>) =>
       /\ ~uses_french_format <=> CommasIn(1, 20) >= 3
       /\ ParsedUnder(CommasIn(1, 20) < 3)

\* three comma-grouped numbers in the 21st row or behind it, fewer than
\* three before: the document is French and 1 132 655 is one number
C21_Witness ==
    /\ script = "universal" /\ pc = "done"
    /\ Len(rows) > 20
    /\ CommasIn(1, 20) < 3
    /\ CommasIn(21, Len(rows)) >= 3
    /\ uses_french_format
    /\ Len(parsed_data) = 3
    /\ parsed_data[3] = <<TextCell(""), TextCell(""), TextCell("MALE"), IntCell(1132655)>>


----------------------------------------------------------------------------
(* The rules of the classification, each taken alone *)

HeaderRule(row) ==
    HasHeader(Upper(RowText(row))) /\ CountNumbers(RowText(row), 1) = 0

MarkerRule(row) ==
    IsSection(Upper(RowText(row)), CountNumbers(RowText(row), 1))

DataRule(row) ==
    HasData(CountWords(RowText(row), 1), CountNumbers(RowText(row), 1),
            CountChar(RowText(row), "-"))

DataOnly(row) == DataRule(row) /\ ~HeaderRule(row) /\ ~MarkerRule(row)

Classified == script = "universal" /\ pc \in {"header", "parse", "combine", "return", "assemble", "done"}

(* C22: the header test and the marker test come before the data test: a   *)
(* row that passes the header test is a header candidate whatever else it  *)
(* passes, a row that passes the marker test is never a data candidate,    *)
(* the data candidates are the rows that pass the data test alone, and no  *)
(* record stems from any other row.                                        *)
C22_TieBreak ==
    Classified =>
       /\ header_candidates = SelectSeq(rows, HeaderRule)
       /\ [k \in 1..Len(data_candidates) |-> data_candidates[k].row] = SelectSeq(rows, DataOnly)
       /\ Len(parsed_data) <= Len(SelectSeq(rows, DataOnly))
       /\ Len(records) <= Len(SelectSeq(rows, DataOnly))
       /\ \A k \in 1..Len(rows) :
             Cardinality({tag \in {"Header", "RegionMarker", "SectionMarker", "DataRow", "Noise"} :
                             RowTag(rows[k]) = tag}) = 1

\* a header and a section marker, each with three dashes, before a line of
\* dashes: one record, under the section of the marker
C22_Witness ==
    /\ script = "universal" /\ pc = "done"
    /\ rows = AsRows(<<"REGION - - -", "RURAL - - -", "MALE - - -">>)
    /\ \A k \in 1..3 : DataRule(rows[k])
    /\ header_candidates = <<rows[1]>>
    /\ records = <<<<TextCell(""), TextCell("RURAL - - -"), TextCell("MALE"),
                     NullCell, NullCell, NullCell>>>>


(* C23: a row with DISTRICT or DIVISION in its text and no number is a     *)
(* region marker: behind it its text is the held region, and every data    *)
(* row up to the next region marker carries that text as its region.       *)
C23_RegionMarker ==
    script = "universal" =>
       /\ (pc \in {"classify", "header"} /\ idx > 1 /\ IsRegionLine(rows[idx - 1][1])) =>
             current_region = Some(rows[idx - 1][1])
       /\ AllParsed =>
             \A k \in 1..Len(parsed_data) :
                LastRegion(DataPosition(k)) # 0 =>
                   parsed_data[k][1] = TextCell(rows[LastRegion(DataPosition(k))][1])


----------------------------------------------------------------------------
(* Letters read for digits *)

Confusable == {"O", "o", "l", "I", "S", "s", "Z", "z"}

\* a token of confusable letters and digits alone
IsConfusableToken(p) ==
    p # "" /\ \A i \in 1..Len(p) : CharAt(p, i) \in Confusable \/ IsDigit(CharAt(p, i))

HasOtherLetter(p) ==
    \E i \in 1..Len(p) : IsAlpha(CharAt(p, i)) /\ CharAt(p, i) \notin Confusable

\* O and o for 0, l and I for 1, S and s for 5, Z and z for 2
Substituted(p) ==
    ReplaceChar(ReplaceChar(ReplaceChar(ReplaceChar(ReplaceChar(ReplaceChar(ReplaceChar(
    ReplaceChar(p, "O", "0"), "o", "0"), "l", "1"), "I", "1"), "S", "5"), "s", "5"),
        "Z", "2"), "z", "2")

(* C24: a token of confusable letters (O o l I S s Z z) and digits alone   *)
(* is the Integer of the token with the eight substitutions made; a token  *)
(* with any other letter is a Text with its characters as they were.       *)
C24_OcrConfusion ==
    FirstPassDone =>
       \A k \in 1..Len(CurrentTokens) :
          LET p == CurrentTokens[k]
          IN  /\ IsConfusableToken(p) => temp_values[k] = IntCell(StrToInt(Substituted(p)))
              /\ HasOtherLetter(p) => temp_values[k] = TextCell(p)


----------------------------------------------------------------------------
(* Rows longer than the column names *)

\* the column names as smart_parse_table returns them
ReturnedHeaders == <<"REGION", "SECTION">> \o SynthesizeHeaders(best_header, rows)

(* C25: when a data row holds more values than there are column names, the *)
(* record keeps the first values, as many as there are names, the values   *)
(* behind them are dropped and the column names stay as they were.         *)
C25_Truncation ==
    Framed =>
       /\ (/\ script = "universal"
           /\ \E i \in 1..Len(parsed_data) : Len(parsed_data[i]) > Len(ReturnedHeaders)) =>
                /\ columns = ReturnedHeaders
                /\ \A k \in 1..Len(records) : \E i \in 1..Len(parsed_data) :
                      records[k] = PadRow(Prefix(parsed_data[i], Len(ReturnedHeaders)),
                                          Len(ReturnedHeaders))
       /\ script = "hierarchical" =>
             /\ columns = hierarchical_headers
             /\ \A k \in 1..Len(records) : Len(records[k]) = Len(hierarchical_headers)


----------------------------------------------------------------------------
(* The reports of a run without a result *)

\* the message of extract_universal.py when pdfplumber and Tesseract have
\* returned without a row
NoRowsReport == "WARNING: No data rows found!"

(* C26: a run of extract_universal.py that has extracted rows and found no *)
(* data row among them ends with a report other than the report of a run   *)
(* that has extracted no row at all.                                       *)
C26_DistinctReports ==
    (Ended /\ script = "universal" /\ exit_code = 1 /\ warning # "Traceback") =>
       /\ rows = <<>> => warning = NoRowsReport
       /\ rows # <<>> => warning # NoRowsReport


----------------------------------------------------------------------------
(* The context across the pages of a document *)

\* the last line of lines that passes Test, "" if there is none
LastLine(lines, Test(_)) ==
    LET at == {k \in 1..Len(lines) : Test(lines[k])}
    IN  IF at = {} THEN "" ELSE lines[SetMax(at)]

IsDivisionLine(line) == Contains(Upper(line), "DIVISION")

IsMaleLine(line) == StartsWith(line, "MALE")

\* the parsed row of the first line of the second page
FirstOfSecondPage ==
    parsed_data[Len(SelectSeq(pages[1].text, IsMaleLine)) + 1]

\* the region and the section of a parsed row
RegionOf(row) == IF script = "multi_page" THEN row[2].s ELSE row[1].s

SectionOf(row) == IF script = "multi_page" THEN row[3].s ELSE row[2].s

(* C27: the context is held across the page boundary: a data row at the    *)
(* top of the second page carries the last region of the first page, and   *)
(* the last section of the first page when no region follows it there.     *)
C27_AcrossPages ==
    (/\ Ended /\ exit_code = 0
     /\ script \in {"universal", "multi_page"}
     /\ method # "Tesseract OCR"
     /\ Len(pages) = 2 /\ pages[2].text # <<>> /\ IsMaleLine(pages[2].text[1])) =>
       /\ LastLine(pages[1].text, IsDivisionLine) # "" =>
             RegionOf(FirstOfSecondPage) = LastLine(pages[1].text, IsDivisionLine)
       /\ (/\ pages[1].text # <<>>
           /\ S_IsSection(pages[1].text[Len(pages[1].text)])) =>
             SectionOf(FirstOfSecondPage) = pages[1].text[Len(pages[1].text)]


(* C28: in the French format an integer from 1000 to 4999999 that is       *)
(* written in groups of three digits with a blank between them, whatever   *)
(* the leading zeros of a group, is read back as one value, the integer.   *)
C28_RoundTrip ==
    (SecondPassDone /\ uses_french_format) =>
       \A N \in RoundTripNumbers :
          rows[1] = <<"MALE " \o FrenchWrite(N)>> =>
             LastValues = <<TextCell("MALE"), IntCell(N)>>


----------------------------------------------------------------------------
(* The Config objects *)

\* what get() returns on a config dictionary, key by key
ConfigView(dc, config) == [k \in DOMAIN config |-> Resolved(dc, config[k])]

DocumentedView == ConfigView(DEFAULT_CONFIG, ShallowCopy(DEFAULT_CONFIG))

\* a step that constructs a Config without a configuration file
StepNewWithoutFile ==
    /\ Len(instances') = Len(instances) + 1
    /\ ~instances'[Len(instances')].file

\* a step that calls set() on an object
StepSet == instances' # instances /\ Len(instances') = Len(instances)

(* C29: a Config constructed without a configuration file holds the        *)
(* documented default values, whatever was set on other objects before;    *)
(* a set() on one object changes neither the defaults of the class nor     *)
(* what get() returns on another object.                                   *)
C29_ConfigIsolation ==
    [][/\ StepNewWithoutFile =>
             ConfigView(default_config', instances'[Len(instances')].config) = DocumentedView
       /\ StepSet =>
             /\ default_config' = default_config
             /\ Cardinality({i \in 1..Len(instances) :
                    ConfigView(default_config', instances'[i].config)
                       # ConfigView(default_config, instances[i].config)}) <= 1]_vars


----------------------------------------------------------------------------
(* The second pass as a division of the first-pass values *)

\* the digits of the integers of seg, every one but the first filled to three
RECURSIVE SegmentDigits(_, _)
SegmentDigits(seg, k) ==
    IF k > Len(seg) THEN ""
    ELSE (IF k = 1 THEN IntToStr(seg[k].n) ELSE ZFill3(IntToStr(seg[k].n)))
            \o SegmentDigits(seg, k + 1)

\* the output value v stands for the values of seg: one value alone, the
\* two halves of ALL SEXES, or the groups of one number
Covers(seg, v) ==
    \/ Len(seg) = 1 /\ v = seg[1]
    \/ /\ Len(seg) = 2
       /\ seg[1].t = "Text" /\ Upper(seg[1].s) = "ALL"
       /\ seg[2].t = "Text" /\ Upper(seg[2].s) = "SEXES"
       /\ v = TextCell("ALL SEXES")
    \/ /\ Len(seg) >= 2
       /\ \A k \in 1..Len(seg) : seg[k].t = "Integer"
       /\ v = IntCell(StrToInt(SegmentDigits(seg, 1)))

\* out is tv cut into segments that follow one another, one output value
\* for each segment
RECURSIVE Explains(_, _)
Explains(tv, out) ==
    IF tv = <<>> THEN out = <<>>
    ELSE /\ out # <<>>
         /\ \E n \in 1..Len(tv) :
               /\ Covers(SubSeq(tv, 1, n), Head(out))
               /\ Explains(SubSeq(tv, n + 1, Len(tv)), Tail(out))

(* C30: the second pass ends for every sequence of first-pass values, and  *)
(* its output is the input cut into segments that follow one another: each *)
(* first-pass value lies in one segment (alone, as a group of a merged     *)
(* number, or as a half of ALL SEXES), none is left out or used twice, and *)
(* the output values stand in the order of their segments.                 *)
C30_ConsumesOnce ==
    /\ FirstPassDone =>
          Len(SecondPass(temp_values, 1, uses_french_format)) \in 1..Len(temp_values)
    /\ SecondPassDone => Explains(temp_values, LastValues)

\* ALL SEXES 1 132: five values in, three values out
C30_Witness ==
    /\ SecondPassDone
    /\ temp_values = <<TextCell("MALE"), TextCell("ALL"), TextCell("SEXES"),
                       IntCell(1), IntCell(132)>>
    /\ LastValues = <<TextCell("MALE"), TextCell("ALL SEXES"), IntCell(1132)>>

=============================================================================
